---------------------------- MODULE Spec2Model ----------------------------
(***************************************************************************)
(* Model of the HTA builder service's validation engine                    *)
(* (ValidationService, src/src/services/aiService.ts:427-1001).            *)
(*                                                                         *)
(* A node is a record with the fields of HTANode.  The fields that the     *)
(* code reads through JavaScript truthiness or string methods (id, title,  *)
(* description, estimatedHours) are tagged JavaScript values, because the  *)
(* request schema is z.array(z.any()) and nothing forces their types:      *)
(*   [t |-> "undefined"], [t |-> "string", s |-> ..], [t |-> "number",     *)
(*   n |-> ..].  A list entry that is JSON null is the value Null.         *)
(* An absent children or dependencies list is the empty sequence: every    *)
(* read of them in the code is guarded by `x && x.length > 0` or `if (x)`. *)
(* The message text of an issue is a fixed template over the node's own    *)
(* fields and is not carried in the model's issues.                        *)
(***************************************************************************)
EXTENDS Integers, Sequences, FiniteSets, TLC

VARIABLES
    structure,   \* structure[c]: the forest caller c passes to validateHTA
    returned,    \* returned[c]: outcomes of caller c's validateHTA calls, oldest first
    walk,        \* the cycle walk in progress (hasCircularDependency), step by step
    scored,      \* calculateScore or generateSuggestions applied on its own: its
                 \* arguments and its value
    ai,          \* AIService: the request in progress or last served, the model
                 \* calls made for it, its outcome, and how many were served
    templates,   \* the rows of hta_templates, oldest first
    reply        \* the last call on the template service or the controller:
                 \* what was asked and what came back

vars == <<structure, returned, walk, scored, ai, templates, reply>>

-----------------------------------------------------------------------------
(* JavaScript values *)

Undefined == [t |-> "undefined"]
Str(s) == [t |-> "string", s |-> s]
Number(n) == [t |-> "number", n |-> n]
Null == [t |-> "null"]

IsNull(x) == x = Null
IsString(v) == v.t = "string"
IsNumber(v) == v.t = "number"

\* ToBoolean: undefined, "" and 0 are falsy
Truthy(v) ==
    CASE v.t = "undefined" -> FALSE
      [] v.t = "null" -> FALSE
      [] v.t = "string" -> v.s # ""
      [] v.t = "number" -> v.n # 0

RECURSIVE TrimStart(_)
TrimStart(s) ==
    IF Len(s) > 0 /\ SubSeq(s, 1, 1) = " " THEN TrimStart(SubSeq(s, 2, Len(s))) ELSE s

RECURSIVE TrimEnd(_)
TrimEnd(s) ==
    IF Len(s) > 0 /\ SubSeq(s, Len(s), Len(s)) = " "
    THEN TrimEnd(SubSeq(s, 1, Len(s) - 1)) ELSE s

\* String.prototype.trim
Trim(s) == TrimEnd(TrimStart(s))

\* `!v || v.trim() === ''` : "blank", "present", or "TypeError" when v is a
\* truthy value without a trim method
BlankCheck(v) ==
    IF ~Truthy(v) THEN "blank"
    ELSE IF ~IsString(v) THEN "TypeError"
    ELSE IF Trim(v.s) = "" THEN "blank" ELSE "present"

\* A number that may be NaN (0/0 in the completeness ratio)
Num(n) == [nan |-> FALSE, v |-> n]
NaN == [nan |-> TRUE, v |-> 0]

\* Math.round(p / q) for q > 0: floor(p/q + 1/2)
RoundDiv(p, q) == (2 * p + q) \div (2 * q)

Max(a, b) == IF a >= b THEN a ELSE b
Min(a, b) == IF a <= b THEN a ELSE b

\* Array.prototype.indexOf, 0-based, -1 when absent
indexOf(arr, x) ==
    IF \E i \in 1..Len(arr) : arr[i] = x
    THEN (CHOOSE i \in 1..Len(arr) : arr[i] = x /\ \A j \in 1..(i - 1) : arr[j] # x) - 1
    ELSE -1

includes(arr, x) == \E i \in 1..Len(arr) : arr[i] = x

\* Concatenation of f(arr[1]), f(arr[2]), ... in order
FlatMap(arr, f(_)) ==
    LET acc[i \in 0..Len(arr)] == IF i = 0 THEN <<>> ELSE acc[i - 1] \o f(arr[i])
    IN acc[Len(arr)]

SumOver(arr, f(_)) ==
    LET acc[i \in 0..Len(arr)] == IF i = 0 THEN 0 ELSE acc[i - 1] + f(arr[i])
    IN acc[Len(arr)]

Count(arr, P(_)) == Cardinality({i \in 1..Len(arr) : P(arr[i])})

Issue(type, code, nodeId, severity, autoFixable) ==
    [type |-> type, code |-> code, nodeId |-> nodeId,
     severity |-> severity, autoFixable |-> autoFixable]

-----------------------------------------------------------------------------
(* Traversal helpers *)

\* The nodes in the order traverseNodes hands them to its callback (pre-order)
RECURSIVE traverseNodes(_)
traverseNodes(nodes) ==
    LET visit(node) == <<node>> \o traverseNodes(node.children)
    IN FlatMap(nodes, visit)

RECURSIVE countNodes(_)
countNodes(nodes) ==
    LET below(node) == countNodes(node.children)
    IN Len(nodes) + SumOver(nodes, below)

\* node[property] !== undefined && !== null && !== ''
countNodesWithProperty(nodes, property) ==
    LET has(node) ==
            LET v == node[property]
            IN v # Undefined /\ v # Null /\ v # Str("")
    IN Count(traverseNodes(nodes), has)

\* [threw |-> TRUE] when an entry is null: reading null.children is a TypeError
RECURSIVE calculateMaxDepth(_, _)
calculateMaxDepth(nodes, currentDepth) ==
    LET step[i \in 0..Len(nodes)] ==
            IF i = 0 THEN [threw |-> FALSE, v |-> currentDepth]
            ELSE LET before == step[i - 1]
                 IN IF before.threw THEN before
                    ELSE IF IsNull(nodes[i]) THEN [threw |-> TRUE, v |-> 0]
                    ELSE IF Len(nodes[i].children) > 0
                         THEN LET child == calculateMaxDepth(nodes[i].children,
                                                             currentDepth + 1)
                              IN IF child.threw THEN child
                                 ELSE [threw |-> FALSE, v |-> Max(before.v, child.v)]
                         ELSE before
    IN step[Len(nodes)]

\* Variant: only the list it is given is measured, the children are not entered
calculateMaxBreadth_noRecursion(nodes) == Len(nodes)

RECURSIVE calculateMaxBreadth(_)
calculateMaxBreadth(nodes) ==
    LET step[i \in 0..Len(nodes)] ==
            IF i = 0 THEN Len(nodes)
            ELSE LET before == step[i - 1]
                 IN IF Len(nodes[i].children) > 0
                    THEN Max(before, calculateMaxBreadth(nodes[i].children))
                    ELSE before
    IN step[Len(nodes)]

\* Sum of the truthy estimates of the leaves
\* Variant: the estimates of all nodes are summed, parents included
calculateTotalEstimate_allNodes(nodes) ==
    LET est(node) ==
            IF Truthy(node.estimatedHours) THEN node.estimatedHours.n ELSE 0
    IN SumOver(traverseNodes(nodes), est)

calculateTotalEstimate(nodes) ==
    LET est(node) ==
            IF Truthy(node.estimatedHours) /\ Len(node.children) = 0
            THEN node.estimatedHours.n ELSE 0
    IN SumOver(traverseNodes(nodes), est)

-----------------------------------------------------------------------------
(* The six rule passes.  Each returns the issues it pushes, in push order. *)

typeHierarchy == <<"objective", "strategy", "initiative", "task", "subtask">>
validPriorities == <<"low", "medium", "high", "critical">>
leafRanks == <<"task", "subtask">>

MaxRecommendedDepth == 6
MaxRecommendedChildren == 8
LongTitle == 100
ShortTitle == 5
LargeEstimate == 1000
LongTask == 40
PersonYear == 2000

\* Variant: a child of the same rank as its parent is accepted
validateNodeTypeHierarchy_sameRankAllowed(node) ==
    LET currentTypeIndex == indexOf(typeHierarchy, node.type)
        check(child) ==
            LET childTypeIndex == indexOf(typeHierarchy, child.type)
            IN IF childTypeIndex # -1 /\ childTypeIndex < currentTypeIndex
               THEN <<Issue("error", "INVALID_HIERARCHY", child.id, "high", TRUE)>>
               ELSE <<>>
    IN IF currentTypeIndex = -1
       THEN <<Issue("error", "INVALID_NODE_TYPE", node.id, "high", TRUE)>>
       ELSE FlatMap(node.children, check)

\* Variant: a child must sit exactly one rank below its parent
validateNodeTypeHierarchy_skipLevel(node) ==
    LET currentTypeIndex == indexOf(typeHierarchy, node.type)
        check(child) ==
            LET childTypeIndex == indexOf(typeHierarchy, child.type)
            IN IF childTypeIndex # -1 /\ childTypeIndex # currentTypeIndex + 1
               THEN <<Issue("error", "INVALID_HIERARCHY", child.id, "high", TRUE)>>
               ELSE <<>>
    IN IF currentTypeIndex = -1
       THEN <<Issue("error", "INVALID_NODE_TYPE", node.id, "high", TRUE)>>
       ELSE FlatMap(node.children, check)

validateNodeTypeHierarchy(node) ==
    LET currentTypeIndex == indexOf(typeHierarchy, node.type)
        check(child) ==
            LET childTypeIndex == indexOf(typeHierarchy, child.type)
            IN IF childTypeIndex # -1 /\ childTypeIndex <= currentTypeIndex
               THEN <<Issue("error", "INVALID_HIERARCHY", child.id, "high", TRUE)>>
               ELSE <<>>
    IN IF currentTypeIndex = -1
       THEN <<Issue("error", "INVALID_NODE_TYPE", node.id, "high", TRUE)>>
       ELSE FlatMap(node.children, check)

\* Variant: eight children are already too many
RECURSIVE validateHierarchy_eightIsTooMany(_, _)
validateHierarchy_eightIsTooMany(nodes, depth) ==
    LET perNode(node) ==
            validateNodeTypeHierarchy(node)
            \o (IF Len(node.children) >= MaxRecommendedChildren
                THEN <<Issue("warning", "TOO_MANY_CHILDREN", node.id, "medium", FALSE)>>
                ELSE <<>>)
            \o (IF Len(node.children) > 0
                THEN validateHierarchy_eightIsTooMany(node.children, depth + 1)
                ELSE <<>>)
    IN (IF depth > MaxRecommendedDepth
        THEN <<Issue("warning", "EXCESSIVE_DEPTH", Undefined, "medium", FALSE)>>
        ELSE <<>>)
       \o FlatMap(nodes, perNode)

\* Variant: the children of a node of unknown type are not entered
RECURSIVE validateHierarchy_unknownStopsDescent(_, _)
validateHierarchy_unknownStopsDescent(nodes, depth) ==
    LET perNode(node) ==
            validateNodeTypeHierarchy(node)
            \o (IF Len(node.children) > MaxRecommendedChildren
                THEN <<Issue("warning", "TOO_MANY_CHILDREN", node.id, "medium", FALSE)>>
                ELSE <<>>)
            \o (IF Len(node.children) > 0 /\ includes(typeHierarchy, node.type)
                THEN validateHierarchy_unknownStopsDescent(node.children, depth + 1)
                ELSE <<>>)
    IN (IF depth > MaxRecommendedDepth
        THEN <<Issue("warning", "EXCESSIVE_DEPTH", Undefined, "medium", FALSE)>>
        ELSE <<>>)
       \o FlatMap(nodes, perNode)

RECURSIVE validateHierarchy(_, _)
validateHierarchy(nodes, depth) ==
    LET perNode(node) ==
            validateNodeTypeHierarchy(node)
            \o (IF Len(node.children) > MaxRecommendedChildren
                THEN <<Issue("warning", "TOO_MANY_CHILDREN", node.id, "medium", FALSE)>>
                ELSE <<>>)
            \o (IF Len(node.children) > 0
                THEN validateHierarchy(node.children, depth + 1)
                ELSE <<>>)
    IN (IF depth > MaxRecommendedDepth
        THEN <<Issue("warning", "EXCESSIVE_DEPTH", Undefined, "medium", FALSE)>>
        ELSE <<>>)
       \o FlatMap(nodes, perNode)

\* The callback of validateNodeProperties on one node: the issues pushed, and
\* whether a TypeError ended it (trim called on a truthy non-string)
nodePropertyCheck(node) ==
    LET idCheck == BlankCheck(node.id)
        titleCheck == BlankCheck(node.title)
        descCheck == BlankCheck(node.description)
        i1 == IF idCheck = "blank"
              THEN <<Issue("error", "MISSING_ID", node.id, "high", TRUE)>> ELSE <<>>
        i2 == IF titleCheck = "blank"
              THEN <<Issue("error", "MISSING_TITLE", node.id, "high", FALSE)>> ELSE <<>>
        i3 == IF Truthy(node.title) /\ Len(node.title.s) > LongTitle
              THEN <<Issue("warning", "LONG_TITLE", node.id, "low", FALSE)>> ELSE <<>>
        i4 == IF Truthy(node.title) /\ Len(node.title.s) < ShortTitle
              THEN <<Issue("warning", "SHORT_TITLE", node.id, "low", FALSE)>> ELSE <<>>
        i5 == IF ~includes(validPriorities, node.priority)
              THEN <<Issue("error", "INVALID_PRIORITY", node.id, "medium", TRUE)>> ELSE <<>>
        i6 == IF descCheck = "blank" /\ includes(leafRanks, node.type)
              THEN <<Issue("warning", "MISSING_DESCRIPTION", node.id, "medium", FALSE)>>
              ELSE <<>>
    IN IF idCheck = "TypeError" THEN [threw |-> TRUE, issues |-> <<>>]
       ELSE IF titleCheck = "TypeError" THEN [threw |-> TRUE, issues |-> i1]
       ELSE IF descCheck = "TypeError"
            THEN [threw |-> TRUE, issues |-> i1 \o i2 \o i3 \o i4 \o i5]
       ELSE [threw |-> FALSE, issues |-> i1 \o i2 \o i3 \o i4 \o i5 \o i6]

\* The pass over all nodes: stops at the first callback that throws
validateNodeProperties(nodes) ==
    LET order == traverseNodes(nodes)
        step[i \in 0..Len(order)] ==
            IF i = 0 THEN [threw |-> FALSE, issues |-> <<>>]
            ELSE LET before == step[i - 1]
                     r == nodePropertyCheck(order[i])
                 IN IF before.threw THEN before
                    ELSE [threw |-> r.threw, issues |-> before.issues \o r.issues]
    IN step[Len(order)]

\* First node in document order whose id === id, or Null
RECURSIVE findNodeById(_, _)
findNodeById(nodes, id) ==
    LET step[i \in 0..Len(nodes)] ==
            IF i = 0 THEN Null
            ELSE LET before == step[i - 1]
                 IN IF before # Null THEN before
                    ELSE IF nodes[i].id = id THEN nodes[i]
                    ELSE findNodeById(nodes[i].children, id)
    IN step[Len(nodes)]

\* Variant: the loop returns the answer of its first resolvable dependency
RECURSIVE hasCircularDependency_firstOnly(_, _, _)
hasCircularDependency_firstOnly(node, allNodes, visited) ==
    LET resolvable == {i \in 1..Len(node.dependencies) :
                          findNodeById(allNodes, Str(node.dependencies[i])) # Null}
        first == CHOOSE i \in resolvable : \A j \in resolvable : i <= j
    IN IF node.id \in visited THEN TRUE
       ELSE IF resolvable = {} THEN FALSE
       ELSE hasCircularDependency_firstOnly(
                findNodeById(allNodes, Str(node.dependencies[first])),
                allNodes, visited \cup {node.id})

\* The walk with one visited set shared by all branches: what it found, and the
\* set after it
RECURSIVE walkSharedVisited(_, _, _)
walkSharedVisited(node, allNodes, visited) ==
    LET step[i \in 0..Len(node.dependencies)] ==
            IF i = 0 THEN [found |-> FALSE, visited |-> visited \cup {node.id}]
            ELSE LET before == step[i - 1]
                     depNode == findNodeById(allNodes, Str(node.dependencies[i]))
                 IN IF before.found \/ depNode = Null THEN before
                    ELSE walkSharedVisited(depNode, allNodes, before.visited)
    IN IF node.id \in visited THEN [found |-> TRUE, visited |-> visited]
       ELSE step[Len(node.dependencies)]

\* Variant: visited is not copied per branch, so a node reached a second time
\* along another path counts as a cycle
hasCircularDependency_sharedVisited(node, allNodes, visited) ==
    walkSharedVisited(node, allNodes, visited).found

\* visited holds the ids on the current path; each branch gets its own copy
RECURSIVE hasCircularDependency(_, _, _)
hasCircularDependency(node, allNodes, visited) ==
    IF node.id \in visited THEN TRUE
    ELSE \E i \in 1..Len(node.dependencies) :
            LET depNode == findNodeById(allNodes, Str(node.dependencies[i]))
            IN depNode # Null
               /\ hasCircularDependency(depNode, allNodes, visited \cup {node.id})

\* Variant: only the ids of the roots are collected
allNodeIds_rootsOnly(nodes) == {nodes[i].id : i \in 1..Len(nodes)}

allNodeIds(nodes) == {traverseNodes(nodes)[i].id : i \in 1..Len(traverseNodes(nodes))}

validateDependencies(nodes) ==
    LET ids == allNodeIds(nodes)
        perNode(node) ==
            LET dangling(depId) ==
                    IF Str(depId) \notin ids
                    THEN <<Issue("error", "INVALID_DEPENDENCY", node.id, "high", TRUE)>>
                    ELSE <<>>
            IN IF Len(node.dependencies) > 0
               THEN FlatMap(node.dependencies, dangling)
                    \o (IF hasCircularDependency(node, nodes, {})
                        THEN <<Issue("error", "CIRCULAR_DEPENDENCY", node.id, "high", FALSE)>>
                        ELSE <<>>)
               ELSE <<>>
    IN FlatMap(traverseNodes(nodes), perNode)

\* Variant: an estimate of 0 is reported as negative too
validateEstimates_zeroIsNegative(nodes) ==
    LET perNode(node) ==
            LET h == node.estimatedHours
                leafRank == includes(leafRanks, node.type) /\ Len(node.children) = 0
            IN IF h # Undefined
               THEN (IF h.n <= 0
                     THEN <<Issue("error", "NEGATIVE_ESTIMATE", node.id, "medium", TRUE)>>
                     ELSE <<>>)
                    \o (IF h.n > LargeEstimate
                        THEN <<Issue("warning", "LARGE_ESTIMATE", node.id, "medium", FALSE)>>
                        ELSE <<>>)
                    \o (IF leafRank /\ h.n = 0
                        THEN <<Issue("warning", "ZERO_ESTIMATE", node.id, "medium", FALSE)>>
                        ELSE <<>>)
                    \o (IF leafRank /\ h.n > LongTask
                        THEN <<Issue("warning", "LONG_TASK", node.id, "medium", FALSE)>>
                        ELSE <<>>)
               ELSE IF includes(leafRanks, node.type)
                    THEN <<Issue("warning", "MISSING_ESTIMATE", node.id, "medium", FALSE)>>
                    ELSE <<>>
    IN FlatMap(traverseNodes(nodes), perNode)

\* Variant: only a node without children is asked for its missing estimate
validateEstimates_leavesOnly(nodes) ==
    LET perNode(node) ==
            LET h == node.estimatedHours
                leafRank == includes(leafRanks, node.type) /\ Len(node.children) = 0
            IN IF h # Undefined
               THEN (IF h.n < 0
                     THEN <<Issue("error", "NEGATIVE_ESTIMATE", node.id, "medium", TRUE)>>
                     ELSE <<>>)
                    \o (IF h.n > LargeEstimate
                        THEN <<Issue("warning", "LARGE_ESTIMATE", node.id, "medium", FALSE)>>
                        ELSE <<>>)
                    \o (IF leafRank /\ h.n = 0
                        THEN <<Issue("warning", "ZERO_ESTIMATE", node.id, "medium", FALSE)>>
                        ELSE <<>>)
                    \o (IF leafRank /\ h.n > LongTask
                        THEN <<Issue("warning", "LONG_TASK", node.id, "medium", FALSE)>>
                        ELSE <<>>)
               ELSE IF leafRank
                    THEN <<Issue("warning", "MISSING_ESTIMATE", node.id, "medium", FALSE)>>
                    ELSE <<>>
    IN FlatMap(traverseNodes(nodes), perNode)

validateEstimates(nodes) ==
    LET perNode(node) ==
            LET h == node.estimatedHours
                leafRank == includes(leafRanks, node.type) /\ Len(node.children) = 0
            IN IF h # Undefined
               THEN (IF h.n < 0
                     THEN <<Issue("error", "NEGATIVE_ESTIMATE", node.id, "medium", TRUE)>>
                     ELSE <<>>)
                    \o (IF h.n > LargeEstimate
                        THEN <<Issue("warning", "LARGE_ESTIMATE", node.id, "medium", FALSE)>>
                        ELSE <<>>)
                    \o (IF leafRank /\ h.n = 0
                        THEN <<Issue("warning", "ZERO_ESTIMATE", node.id, "medium", FALSE)>>
                        ELSE <<>>)
                    \o (IF leafRank /\ h.n > LongTask
                        THEN <<Issue("warning", "LONG_TASK", node.id, "medium", FALSE)>>
                        ELSE <<>>)
               ELSE IF includes(leafRanks, node.type)
                    THEN <<Issue("warning", "MISSING_ESTIMATE", node.id, "medium", FALSE)>>
                    ELSE <<>>
    IN FlatMap(traverseNodes(nodes), perNode)

\* The ratios are compared as fractions: e/t < 0.7 is 10e < 7t, and with
\* t = 0 the ratio is NaN and both comparisons are false
validateCompleteness(nodes) ==
    LET order == traverseNodes(nodes)
        withEstimate(node) == node.estimatedHours # Undefined /\ node.estimatedHours.n > 0
        withDescription(node) == Truthy(node.description) /\ Trim(node.description.s) # ""
        nodesWithEstimates == Count(order, withEstimate)
        nodesWithDescriptions == Count(order, withDescription)
        totalNodes == countNodes(nodes)
    IN (IF totalNodes > 0 /\ 10 * nodesWithEstimates < 7 * totalNodes
        THEN <<Issue("warning", "INCOMPLETE_ESTIMATES", Undefined, "medium", FALSE)>>
        ELSE <<>>)
       \o (IF totalNodes > 0 /\ 2 * nodesWithDescriptions < totalNodes
           THEN <<Issue("warning", "INCOMPLETE_DESCRIPTIONS", Undefined, "low", FALSE)>>
           ELSE <<>>)

validateFeasibility(nodes) ==
    LET totalEstimate == calculateTotalEstimate(nodes)
        childEst(child) == IF Truthy(child.estimatedHours) THEN child.estimatedHours.n ELSE 0
        perNode(node) ==
            LET totalChildEstimate == SumOver(node.children, childEst)
                nodeEstimate == childEst(node)
            IN IF Len(node.children) > 0 /\ nodeEstimate > 0
                  /\ totalChildEstimate > nodeEstimate * 3
               THEN <<Issue("warning", "UNREALISTIC_BREAKDOWN", node.id, "medium", FALSE)>>
               ELSE <<>>
    IN (IF totalEstimate > PersonYear
        THEN <<Issue("warning", "LARGE_PROJECT", Undefined, "medium", FALSE)>>
        ELSE <<>>)
       \o FlatMap(traverseNodes(nodes), perNode)

-----------------------------------------------------------------------------
(* Metrics, score, suggestions *)

DefaultFeasibility == 50
HoursPerFeasibilityPoint == 50

\* Variant: a total of exactly one person-year still counts as within budget
calculateMetrics_inclusiveBudget(nodes) ==
    LET d == calculateMaxDepth(nodes, 0)
        depth == d.v
        breadth == calculateMaxBreadth(nodes)
        totalNodes == countNodes(nodes)
        nodesWithEstimates == countNodesWithProperty(nodes, "estimatedHours")
        nodesWithDescriptions == countNodesWithProperty(nodes, "description")
        totalEstimate == calculateTotalEstimate(nodes)
    IN IF d.threw THEN [threw |-> TRUE]
       ELSE [threw |-> FALSE,
             depth |-> depth,
             breadth |-> breadth,
             complexity |-> Min(100, depth * 10 + breadth * 5),
             completeness |->
                 IF totalNodes = 0 THEN NaN
                 ELSE Num(RoundDiv((nodesWithEstimates + nodesWithDescriptions) * 100,
                                   totalNodes * 2)),
             \* Math.round(Math.min(100, 100 - totalEstimate / 50))
             feasibility |->
                 IF totalEstimate > 0 /\ totalEstimate <= PersonYear
                 THEN Min(100, RoundDiv(100 * HoursPerFeasibilityPoint - totalEstimate,
                                        HoursPerFeasibilityPoint))
                 ELSE DefaultFeasibility]

\* [threw |-> TRUE] when calculateMaxDepth throws; completeness is NaN for the
\* empty forest (0 / 0)
calculateMetrics(nodes) ==
    LET d == calculateMaxDepth(nodes, 0)
        depth == d.v
        breadth == calculateMaxBreadth(nodes)
        totalNodes == countNodes(nodes)
        nodesWithEstimates == countNodesWithProperty(nodes, "estimatedHours")
        nodesWithDescriptions == countNodesWithProperty(nodes, "description")
        totalEstimate == calculateTotalEstimate(nodes)
    IN IF d.threw THEN [threw |-> TRUE]
       ELSE [threw |-> FALSE,
             depth |-> depth,
             breadth |-> breadth,
             complexity |-> Min(100, depth * 10 + breadth * 5),
             completeness |->
                 IF totalNodes = 0 THEN NaN
                 ELSE Num(RoundDiv((nodesWithEstimates + nodesWithDescriptions) * 100,
                                   totalNodes * 2)),
             \* Math.round(Math.min(100, 100 - totalEstimate / 50))
             feasibility |->
                 IF totalEstimate > 0 /\ totalEstimate < PersonYear
                 THEN Min(100, RoundDiv(100 * HoursPerFeasibilityPoint - totalEstimate,
                                        HoursPerFeasibilityPoint))
                 ELSE DefaultFeasibility]

penalty(issue) ==
    CASE issue.severity = "high" -> IF issue.type = "error" THEN 15 ELSE 8
      [] issue.severity = "medium" -> IF issue.type = "error" THEN 10 ELSE 5
      [] issue.severity = "low" -> IF issue.type = "error" THEN 5 ELSE 2
      [] OTHER -> 0

\* Math.max(0, Math.min(100, NaN)) is NaN
calculateScore(issues, metrics) ==
    LET score == 100 - SumOver(issues, penalty)
    IN IF metrics.completeness.nan THEN NaN
       ELSE Num(Max(0, Min(100,
                RoundDiv(score + metrics.completeness.v + metrics.feasibility, 3))))

Suggestion(text, n) == [text |-> text, n |-> n]

\* Variant: five warnings already bring the advice about warnings
generateSuggestions_fiveWarnings(issues, metrics) ==
    LET isError(i) == i.type = "error"
        isWarning(i) == i.type = "warning"
        errorCount == Count(issues, isError)
        warningCount == Count(issues, isWarning)
        suggestions ==
            (IF errorCount > 0 THEN <<Suggestion("Fix critical errors", errorCount)>>
             ELSE <<>>)
            \o (IF warningCount >= 5 THEN <<Suggestion("Address warnings", 0)>> ELSE <<>>)
            \o (IF metrics.depth > 5 THEN <<Suggestion("Flatten hierarchy", 0)>> ELSE <<>>)
            \o (IF metrics.breadth > 8 THEN <<Suggestion("Group tasks", 0)>> ELSE <<>>)
            \o (IF ~metrics.completeness.nan /\ metrics.completeness.v < 70
                THEN <<Suggestion("Add estimates and descriptions", 0)>> ELSE <<>>)
            \o (IF metrics.feasibility < 60
                THEN <<Suggestion("Phases or reduce scope", 0)>> ELSE <<>>)
    IN IF Len(suggestions) = 0 THEN <<Suggestion("Structure looks good", 0)>>
       ELSE suggestions

\* Variant: a feasibility of exactly 60 already brings the advice about scope
generateSuggestions_sixtyIsLow(issues, metrics) ==
    LET isError(i) == i.type = "error"
        isWarning(i) == i.type = "warning"
        errorCount == Count(issues, isError)
        warningCount == Count(issues, isWarning)
        suggestions ==
            (IF errorCount > 0 THEN <<Suggestion("Fix critical errors", errorCount)>>
             ELSE <<>>)
            \o (IF warningCount > 5 THEN <<Suggestion("Address warnings", 0)>> ELSE <<>>)
            \o (IF metrics.depth > 5 THEN <<Suggestion("Flatten hierarchy", 0)>> ELSE <<>>)
            \o (IF metrics.breadth > 8 THEN <<Suggestion("Group tasks", 0)>> ELSE <<>>)
            \o (IF ~metrics.completeness.nan /\ metrics.completeness.v < 70
                THEN <<Suggestion("Add estimates and descriptions", 0)>> ELSE <<>>)
            \o (IF metrics.feasibility <= 60
                THEN <<Suggestion("Phases or reduce scope", 0)>> ELSE <<>>)
    IN IF Len(suggestions) = 0 THEN <<Suggestion("Structure looks good", 0)>>
       ELSE suggestions
generateSuggestions(issues, metrics) ==
    LET isError(i) == i.type = "error"
        isWarning(i) == i.type = "warning"
        errorCount == Count(issues, isError)
        warningCount == Count(issues, isWarning)
        suggestions ==
            (IF errorCount > 0 THEN <<Suggestion("Fix critical errors", errorCount)>>
             ELSE <<>>)
            \o (IF warningCount > 5 THEN <<Suggestion("Address warnings", 0)>> ELSE <<>>)
            \o (IF metrics.depth > 5 THEN <<Suggestion("Flatten hierarchy", 0)>> ELSE <<>>)
            \o (IF metrics.breadth > 8 THEN <<Suggestion("Group tasks", 0)>> ELSE <<>>)
            \o (IF ~metrics.completeness.nan /\ metrics.completeness.v < 70
                THEN <<Suggestion("Add estimates and descriptions", 0)>> ELSE <<>>)
            \o (IF metrics.feasibility < 60
                THEN <<Suggestion("Phases or reduce scope", 0)>> ELSE <<>>)
    IN IF Len(suggestions) = 0 THEN <<Suggestion("Structure looks good", 0)>>
       ELSE suggestions

-----------------------------------------------------------------------------
(* validateHTA *)

\* The issues array after the rule passes ran inside the try block; threw is
\* TRUE when a pass raised, and issues then holds what had been pushed so far
runPasses(nodes) ==
    LET h == validateHierarchy(nodes, 0)
        p == validateNodeProperties(nodes)
    IN IF p.threw THEN [threw |-> TRUE, issues |-> h \o p.issues]
       ELSE [threw |-> FALSE,
             issues |-> h \o p.issues
                        \o validateDependencies(nodes)
                        \o validateEstimates(nodes)
                        \o validateCompleteness(nodes)
                        \o validateFeasibility(nodes)]

\* Variant: the catch block keeps the issues pushed before the failure
degradedResult_partial(collected) ==
    [isValid |-> FALSE,
     issues |-> collected
                \o <<Issue("error", "VALIDATION_ERROR", Undefined, "high", FALSE)>>,
     suggestions |-> <<Suggestion("Please review the structure and try again", 0)>>,
     score |-> Num(0),
     metrics |-> [depth |-> 0, breadth |-> 0, complexity |-> 0,
                  completeness |-> Num(0), feasibility |-> 0]]

\* The literal the catch block returns
degradedResult(collected) ==
    [isValid |-> FALSE,
     issues |-> <<Issue("error", "VALIDATION_ERROR", Undefined, "high", FALSE)>>,
     suggestions |-> <<Suggestion("Please review the structure and try again", 0)>>,
     score |-> Num(0),
     metrics |-> [depth |-> 0, breadth |-> 0, complexity |-> 0,
                  completeness |-> Num(0), feasibility |-> 0]]

\* Variant: valid only when the issues list is empty
isValidOf_noIssues(issues) == Len(issues) = 0

isValidOf(issues) ==
    LET isError(i) == i.type = "error"
    IN Count(issues, isError) = 0

normalResult(issues, metrics) ==
    [isValid |-> isValidOf(issues),
     issues |-> issues,
     suggestions |-> generateSuggestions(issues, metrics),
     score |-> calculateScore(issues, metrics),
     metrics |-> [depth |-> metrics.depth, breadth |-> metrics.breadth,
                  complexity |-> metrics.complexity,
                  completeness |-> metrics.completeness,
                  feasibility |-> metrics.feasibility]]

\* Variant: the issues array is a field of the service, never cleared, so a
\* call starts from the issues of the calls answered before it
validateHTA_sharedIssues(nodes) ==
    LET metrics == calculateMetrics(nodes)
        passes == runPasses(nodes)
        left(c) ==
            IF returned[c] # <<>> /\ returned[c][Len(returned[c])].kind = "returned"
            THEN returned[c][Len(returned[c])].result.issues ELSE <<>>
        carried == FlatMap([c \in 1..Len(returned) |-> c], left)
    IN IF metrics.threw THEN [kind |-> "threw"]
       ELSE IF passes.threw
            THEN [kind |-> "returned", result |-> degradedResult(passes.issues)]
       ELSE [kind |-> "returned",
             result |-> normalResult(carried \o passes.issues, metrics)]

\* The outcome of one call: calculateMetrics runs before the try block, so a
\* TypeError in it leaves validateHTA as an exception
validateHTA(nodes) ==
    LET metrics == calculateMetrics(nodes)
        passes == runPasses(nodes)
    IN IF metrics.threw THEN [kind |-> "threw"]
       ELSE IF passes.threw
            THEN [kind |-> "returned", result |-> degradedResult(passes.issues)]
       ELSE [kind |-> "returned", result |-> normalResult(passes.issues, metrics)]

-----------------------------------------------------------------------------
(* Input forests.  A forest of n nodes is drawn as a parent vector over the  *)
(* pre-order positions 1..n (0 is "root"), a label per position and an id    *)
(* per position, and nested into the HTANode[] shape the code receives.      *)

RECURSIVE OnPath(_, _, _)
OnPath(parent, a, j) == a = j \/ (j # 0 /\ OnPath(parent, a, parent[j]))

\* Parent vectors whose positions are in pre-order: each node hangs under the
\* previous node or under one of its ancestors (or is a new root)
ParentVectors(n) ==
    {parent \in [1..n -> 0..(n - 1)] :
        \A i \in 1..n : parent[i] < i /\ (i > 1 => OnPath(parent, parent[i], i - 1))}

FlatShape(n) == [i \in 1..n |-> 0]
ChainShape(n) == [i \in 1..n |-> i - 1]

RECURSIVE SortedSeq(_)
SortedSeq(S) ==
    IF S = {} THEN <<>>
    ELSE LET m == CHOOSE x \in S : \A y \in S : x <= y
         IN <<m>> \o SortedSeq(S \ {m})

RECURSIVE NestUnder(_, _, _, _)
NestUnder(parent, labels, ids, a) ==
    LET kids == SortedSeq({i \in DOMAIN parent : parent[i] = a})
        build(i) ==
            IF labels[i] = Null THEN <<Null>>
            ELSE <<[id |-> ids[i],
                    type |-> labels[i].type,
                    title |-> labels[i].title,
                    description |-> labels[i].description,
                    priority |-> labels[i].priority,
                    estimatedHours |-> labels[i].estimatedHours,
                    dependencies |-> labels[i].dependencies,
                    children |-> NestUnder(parent, labels, ids, i)]>>
    IN FlatMap(kids, build)

Nest(parent, labels, ids) == NestUnder(parent, labels, ids, 0)

\* null has no children
NullsAreLeaves(parent, labels) ==
    \A i \in DOMAIN parent : parent[i] # 0 => labels[parent[i]] # Null

PositionNames == <<"a", "b", "c", "d", "e", "f">>
PositionIds(n) == [i \in 1..n |-> Str(PositionNames[i])]

Label(type, title, description, estimatedHours, dependencies) ==
    [type |-> type, title |-> title, description |-> description,
     priority |-> "medium", estimatedHours |-> estimatedHours,
     dependencies |-> dependencies]

GoodTitle == Str("Launch plan")
GoodDescription == Str("Ship the product")


MalformedNodes == 3
HierarchyNodes == 3
DependencyNodes == 3
DependencyEdges == 3
PairNodes == 2
MaxCalls == 2

CleanObjective == Label("objective", GoodTitle, GoodDescription, Number(8), <<>>)
BareTask == Label("task", GoodTitle, Undefined, Undefined, <<>>)
UnknownType == Label("epic", GoodTitle, GoodDescription, Number(8), <<>>)
NumericTitle == Label("objective", Number(7), GoodDescription, Number(8), <<>>)
NoTitle == Label("objective", Undefined, GoodDescription, Number(8), <<>>)

\* Well-formed and malformed entries: a null entry, a title that is a number
MalformedLabels == {CleanObjective, BareTask, UnknownType, NumericTitle, NoTitle, Null}

\* Every rank and one unknown type, in every shape
HierarchyLabels ==
    {Label(type, GoodTitle, GoodDescription, Number(8), <<>>) :
        type \in {"objective", "strategy", "initiative", "task", "subtask", "epic"}}

\* Dependency lists of at most two entries over the ids of the forest and one
\* id ("x") that no node carries; an entry may repeat
DependencyLists(n) ==
    LET pool == [i \in 1..(n + 1) |-> IF i <= n THEN PositionNames[i] ELSE "x"]
    IN {<<>>} \cup {<<pool[i]>> : i \in 1..(n + 1)}
       \cup {<<pool[q[1]], pool[q[2]]>> :
                q \in {r \in (1..(n + 1)) \X (1..(n + 1)) : r[1] <= r[2]}}

DependencyLabels(n) ==
    {Label("task", GoodTitle, GoodDescription, Number(8), deps) :
        deps \in DependencyLists(n)}

\* The Dependency Pass reads the forest only in document order, so two shapes
\* (all roots, one chain) cover its traversal
DependencyShapes(n) == {FlatShape(n), ChainShape(n)}

TotalDependencies(labels) ==
    LET deps(label) == Len(label.dependencies)
    IN SumOver(labels, deps)

MalformedLabelsAt(n) == MalformedLabels
HierarchyLabelsAt(n) == HierarchyLabels
PairLabelsAt(n) == {CleanObjective, NumericTitle}

IdsByPosition(n) == {PositionIds(n)}

\* Distinct ids, or the last node carrying the id of the first
IdsWithDuplicate(n) ==
    {PositionIds(n)}
    \cup {[i \in 1..n |-> IF i = n THEN Str(PositionNames[1]) ELSE PositionIds(n)[i]]}

AnyLabels(labels) == TRUE
WithinDependencyEdges(labels) == TotalDependencies(labels) <= DependencyEdges

-----------------------------------------------------------------------------
(* Forests whose ids may be blank, missing or shared *)

IdNodes == 2

\* Two proper ids, the empty string, a string of spaces, and no id at all
IdPool == {Str("a"), Str("b"), Str(""), Str("  "), Undefined}

IdsFromPool(n) == [1..n -> IdPool]

\* A dependency entry is a string: a proper id, a blank one, or one no node has
IdDependencyLists == {<<>>, <<"a">>, <<"">>, <<"  ">>, <<"x">>}

IdLabels(n) ==
    {Label("task", GoodTitle, GoodDescription, Number(8), deps) :
        deps \in IdDependencyLists}

-----------------------------------------------------------------------------
(* Forests of tasks that differ in their estimates *)

EstimateNodes == 3

\* No estimate, zero, a negative one, and values whose sums fall on both sides
\* of a person-year
EstimateValues ==
    {Undefined, Number(0), Number(-5), Number(25), Number(1000), Number(1001)}

EstimateLabels(n) ==
    {Label("task", GoodTitle, GoodDescription, h, <<>>) : h \in EstimateValues}

-----------------------------------------------------------------------------
(* Ranks and estimates: every rank with no estimate, zero, and the values on *)
(* both sides of LongTask                                                    *)

RankNodes == 2

RankEstimates == {Undefined, Number(0), Number(40), Number(41)}

RankLabels(n) ==
    {Label(type, GoodTitle, GoodDescription, h, <<>>) :
        type \in {typeHierarchy[r] : r \in 1..Len(typeHierarchy)},
        h \in RankEstimates}

-----------------------------------------------------------------------------
(* Titles: absent, empty, blank, and lengths on both sides of ShortTitle and *)
(* LongTitle                                                                 *)

TitleNodes == 2

TenLetters == "abcdefghij"
FiftyLetters == TenLetters \o TenLetters \o TenLetters \o TenLetters \o TenLetters

TitleValues ==
    {Undefined, Str(""), Str("   "), Str("Plan"), Str("Plans"),
     Str(FiftyLetters \o FiftyLetters), Str(FiftyLetters \o FiftyLetters \o "k")}

TitleLabels(n) ==
    {Label("objective", title, GoodDescription, Number(8), <<>>) : title \in TitleValues}

-----------------------------------------------------------------------------
(* Budgets: leaf totals of 0, below 0, and on both sides of a person-year    *)

BudgetNodes == 3

BudgetValues == {Undefined, Number(-5), Number(999), Number(1000)}

BudgetLabels(n) ==
    {Label("task", GoodTitle, GoodDescription, h, <<>>) : h \in BudgetValues}

-----------------------------------------------------------------------------
(* Wide forests: a root with k1 children, the first of which has k2 children *)

FanChildren == 10

Digits == <<"0", "1", "2", "3", "4", "5", "6", "7", "8", "9">>

\* An id per position: "n01", "n02", ...
FanIds(n) == [i \in 1..n |-> Str("n" \o Digits[(i \div 10) + 1] \o Digits[(i % 10) + 1])]

FanSize(k1, k2) == 1 + k1 + k2

\* Position 1 is the root, 2 its first child, 3..(2 + k2) the children of
\* that child, the rest the other children of the root
FanParents(k1, k2) ==
    [i \in 1..FanSize(k1, k2) |->
        IF i = 1 THEN 0
        ELSE IF i = 2 THEN 1
        ELSE IF i <= 2 + k2 THEN 2
        ELSE 1]

FanLabels(k1, k2, rootType, innerType) ==
    [i \in 1..FanSize(k1, k2) |->
        Label(IF i = 1 THEN rootType ELSE IF i = 2 THEN innerType ELSE "task",
              GoodTitle, GoodDescription, Number(8), <<>>)]

\* A known rank and a type that is none
FanTypes == {"objective", "strategy", "epic"}

-----------------------------------------------------------------------------
(* Deep forests: a chain of s nodes, w children under its last node, and b   *)
(* more roots                                                                *)

DeepLevels == 9
DeepWidth == 3

DeepSize(s, w, b) == s + w + b

\* Positions 1..s are the chain, the next w hang under position s, the last b
\* are roots
DeepParents(s, w, b) ==
    [i \in 1..DeepSize(s, w, b) |->
        IF i <= s THEN i - 1
        ELSE IF i <= s + w THEN s
        ELSE 0]

DeepLabels(s, w, b) ==
    [i \in 1..DeepSize(s, w, b) |->
        Label("task", GoodTitle, GoodDescription, Number(8), <<>>)]

-----------------------------------------------------------------------------
(* Arguments for calculateScore on its own *)

ScoreIssues == 2

\* type and severity as ValidationIssue declares them
ScoredIssues ==
    {Issue(type, "CODE", Undefined, severity, FALSE) :
        type \in {"error", "warning", "suggestion"},
        severity \in {"high", "medium", "low"}}

ScoredCompleteness == {0, 67, 100}
ScoredFeasibility == {50, 99}

-----------------------------------------------------------------------------
(* Arguments for generateSuggestions on its own *)

SuggestIssues == 6

\* The three kinds of ValidationIssue; severity plays no part
SuggestedIssues ==
    {Issue(type, "CODE", Undefined, "medium", FALSE) :
        type \in {"error", "warning", "suggestion"}}

\* Metrics on both sides of each threshold; completeness is NaN for an empty
\* forest
SuggestedDepth == {5, 6}
SuggestedBreadth == {8, 9}
SuggestedCompleteness == {Num(69), Num(70), NaN}
SuggestedFeasibility == {50, 60}

-----------------------------------------------------------------------------
(* TemplateService: the table hta_templates and the statements run on it.    *)
(* A table is [rows, issued]: the rows, oldest first, and how many ids uuidv4 *)
(* has handed out.  Each operator gives the table after the statement and    *)
(* what the method returns.                                                  *)

MaxTemplates == 2

\* The id uuidv4 gives to the n-th template: never one given before
uuidv4(n) == "t" \o Digits[n + 1]

\* JSON.stringify of a number: NaN is written as null
StringifyNumber(x) == IF x.nan THEN Null ELSE Number(x.v)

mapRowToTemplate(row) ==
    [id |-> row.id, name |-> row.name, structure |-> row.structure,
     isPublic |-> row.is_public, usageCount |-> row.usage_count,
     createdBy |-> row.created_by, tenantId |-> row.tenant_id,
     metadata |-> row.metadata]

\* INSERT ... RETURNING *
createTemplate(table, template) ==
    LET row == [id |-> uuidv4(table.issued + 1), name |-> template.name,
                structure |-> template.structure, is_public |-> template.isPublic,
                created_by |-> template.createdBy, tenant_id |-> template.tenantId,
                usage_count |-> 0, metadata |-> template.metadata]
    IN [table |-> [rows |-> Append(table.rows, row), issued |-> table.issued + 1],
        result |-> mapRowToTemplate(row)]

\* SELECT ... WHERE id = $1 AND (tenant_id = $2 OR is_public = true)
getTemplate(table, id, tenantId) ==
    LET selected(row) == row.id = id /\ (row.tenant_id = tenantId \/ row.is_public = TRUE)
        rows == SelectSeq(table.rows, selected)
    IN [table |-> table,
        result |-> IF Len(rows) = 0 THEN Null ELSE mapRowToTemplate(rows[1])]

\* Variant: a public template may be updated by any tenant
updateTemplate_publicWritable(table, id, updates, tenantId) ==
    LET matches(row) == row.id = id /\ (row.tenant_id = tenantId \/ row.is_public = TRUE)
        set(row) ==
            [row EXCEPT
                !.name = IF updates.name # Undefined THEN updates.name.s ELSE @,
                !.is_public = IF updates.isPublic # Undefined THEN updates.isPublic.b ELSE @]
        rows == [i \in 1..Len(table.rows) |->
                    IF matches(table.rows[i]) THEN set(table.rows[i]) ELSE table.rows[i]]
        returning == SelectSeq(rows, matches)
    IN IF updates.name = Undefined /\ updates.isPublic = Undefined
       THEN [table |-> table, threw |-> TRUE]
       ELSE [table |-> [table EXCEPT !.rows = rows], threw |-> FALSE,
             result |-> IF Len(returning) = 0 THEN Null
                        ELSE mapRowToTemplate(returning[1])]

\* UPDATE ... SET <the fields given> WHERE id = $n AND tenant_id = $m
\* RETURNING *; throws 'No updates provided' when updates names no field.
\* Of the nine fields that can be set, name and isPublic are carried.
updateTemplate(table, id, updates, tenantId) ==
    LET matches(row) == row.id = id /\ row.tenant_id = tenantId
        set(row) ==
            [row EXCEPT
                !.name = IF updates.name # Undefined THEN updates.name.s ELSE @,
                !.is_public = IF updates.isPublic # Undefined THEN updates.isPublic.b ELSE @]
        rows == [i \in 1..Len(table.rows) |->
                    IF matches(table.rows[i]) THEN set(table.rows[i]) ELSE table.rows[i]]
        returning == SelectSeq(rows, matches)
    IN IF updates.name = Undefined /\ updates.isPublic = Undefined
       THEN [table |-> table, threw |-> TRUE]
       ELSE [table |-> [table EXCEPT !.rows = rows], threw |-> FALSE,
             result |-> IF Len(returning) = 0 THEN Null
                        ELSE mapRowToTemplate(returning[1])]

\* DELETE ... WHERE id = $1 AND tenant_id = $2; true when a row went
deleteTemplate(table, id, tenantId) ==
    LET matches(row) == row.id = id /\ row.tenant_id = tenantId
        kept(row) == ~matches(row)
        rows == SelectSeq(table.rows, kept)
    IN [table |-> [table EXCEPT !.rows = rows],
        result |-> Len(table.rows) - Len(rows) > 0]

\* Tenants, and what a caller may pass
Tenants == {"acme", "globex"}
TemplateNames == {"Plan A", "Plan B"}
Bool(b) == [t |-> "boolean", b |-> b]
TemplateUpdates ==
    {[name |-> name, isPublic |-> isPublic] :
        name \in {Undefined} \cup {Str(n) : n \in TemplateNames},
        isPublic \in {Undefined, Bool(TRUE), Bool(FALSE)}}
\* Every id handed out so far and one that never was
KnownIds(table) == {uuidv4(n) : n \in 1..table.issued} \cup {"t0"}

-----------------------------------------------------------------------------
(* HTAController.createTemplate *)

RequestNodes == 2

\* TemplateCreateSchema.parse.  Of its fields, name (3 to 100 characters),
\* structure (an array) and isPublic (false when absent) are carried; the
\* others are taken to pass.
TemplateCreateSchema(body) ==
    IF /\ IsString(body.name) /\ Len(body.name.s) >= 3 /\ Len(body.name.s) <= 100
       /\ body.structure # Undefined
    THEN [threw |-> FALSE,
          value |-> [name |-> body.name.s, structure |-> body.structure.a,
                     isPublic |-> IF body.isPublic = Undefined THEN FALSE
                                  ELSE body.isPublic.b]]
    ELSE [threw |-> TRUE]

\* What the handler did with its collaborators and what it answered
Handled(table, validation, status, body) ==
    [table |-> table, validation |-> validation, status |-> status, body |-> body]

NotValidated == [kind |-> "not called"]

\* Variant: the template is stored whatever the validation says
answerUnchecked(table, parsed, user, dbUp, validation) ==
    LET done == createTemplate(table,
                    [name |-> parsed.value.name, structure |-> parsed.value.structure,
                     isPublic |-> parsed.value.isPublic,
                     createdBy |-> user.userId, tenantId |-> user.tenantId,
                     metadata |->
                        [validationScore |-> StringifyNumber(validation.result.score),
                         nodeCount |-> countNodes(parsed.value.structure),
                         createdFromGeneration |-> TRUE]])
    IN IF parsed.threw
       THEN Handled(table, NotValidated, 400,
                    [success |-> FALSE, error |-> "Invalid template parameters"])
       ELSE IF user = Undefined
       THEN Handled(table, NotValidated, 401, [error |-> "Authentication required"])
       ELSE IF validation.kind = "threw"
       THEN Handled(table, validation, 500,
                    [success |-> FALSE, error |-> "Failed to create template"])
       ELSE IF ~dbUp
       THEN Handled(table, validation, 500,
                    [success |-> FALSE, error |-> "Failed to create template"])
       ELSE Handled(done.table, validation, 200, [success |-> TRUE, data |-> done.result])

\* The handler from the parsed body on; validation is what validateHTA gives
\* for the structure, looked at only once the body parsed and a user is there.
\* dbUp is whether the insert goes through; res.json without res.status
\* answers 200.  HTAController.countNodes has the text of
\* ValidationService.countNodes.
answerCreateTemplate(table, parsed, user, dbUp, validation) ==
    LET isError(i) == i.type = "error"
        done == createTemplate(table,
                    [name |-> parsed.value.name, structure |-> parsed.value.structure,
                     isPublic |-> parsed.value.isPublic,
                     createdBy |-> user.userId, tenantId |-> user.tenantId,
                     metadata |->
                        [validationScore |-> StringifyNumber(validation.result.score),
                         nodeCount |-> countNodes(parsed.value.structure),
                         createdFromGeneration |-> TRUE]])
    IN IF parsed.threw
       THEN Handled(table, NotValidated, 400,
                    [success |-> FALSE, error |-> "Invalid template parameters"])
       ELSE IF user = Undefined
       THEN Handled(table, NotValidated, 401, [error |-> "Authentication required"])
       ELSE IF validation.kind = "threw"
       THEN Handled(table, validation, 500,
                    [success |-> FALSE, error |-> "Failed to create template"])
       ELSE IF ~validation.result.isValid
       THEN Handled(table, validation, 400,
                    [success |-> FALSE, error |-> "Structure has validation errors",
                     details |-> SelectSeq(validation.result.issues, isError)])
       ELSE IF ~dbUp
       THEN Handled(table, validation, 500,
                    [success |-> FALSE, error |-> "Failed to create template"])
       ELSE Handled(done.table, validation, 200, [success |-> TRUE, data |-> done.result])

\* Variant: the whole handler without the isValid test
HTAController_createTemplate_unchecked(table, body, user, dbUp) ==
    LET parsed == TemplateCreateSchema(body)
    IN answerUnchecked(table, parsed, user, dbUp, validateHTA(parsed.value.structure))

\* The whole handler: parse, authenticate, validate, store, answer
HTAController_createTemplate(table, body, user, dbUp) ==
    LET parsed == TemplateCreateSchema(body)
    IN answerCreateTemplate(table, parsed, user, dbUp,
                            validateHTA(parsed.value.structure))

\* Who may be asking: nobody the middleware recognised, or a user of a tenant
Users == {Undefined} \cup {[userId |-> "u-" \o t, tenantId |-> t] : t \in Tenants}

\* The bodies a request may carry for a given structure
TemplateBodies(forest) ==
    {[name |-> name, structure |-> held, isPublic |-> isPublic] :
        name \in {Str("ab"), Str("Plan A")},
        held \in {Undefined, [t |-> "array", a |-> forest]},
        isPublic \in {Undefined, Bool(TRUE)}}

-----------------------------------------------------------------------------
(* AIService.  A JSON value is Undefined, Null, Str, [t |-> "array", a |->   *)
(* <<...>>] or [t |-> "object"] (an object that is no array); a node of a    *)
(* answer is Null or a record of id, title and children.                      *)

AiRequests == 2

primaryModel == "gpt-4o-mini"
fallbackModel == "gpt-3.5-turbo"

Array(a) == [t |-> "array", a |-> a]
Object == [t |-> "object"]
AiNode(id, title, children) == [id |-> id, title |-> title, children |-> children]

\* What the model may send back as message content
AiContents ==
    {"I am sorry, I cannot help with that.",
     "{}",
     "{\"structure\":[{\"title\":\"Launch\"}]}",
     "{\"structure\":[{\"id\":\"n1\",\"title\":\"Launch\",\"children\":[{\"title\":\"Plan\"}]}]}",
     "{\"structure\":[{\"title\":\"Launch\",\"children\":{}}]}",
     "{\"structure\":{\"title\":\"Launch\"}}",
     "{\"structure\":[null]}",
     "{\"refinedStructure\":[{\"title\":\"Plan\"}],\"changes\":[]}",
     "{\"refinedStructure\":[null]}"}

\* JSON.parse on those contents: the value, or a SyntaxError
JSONparse(content) ==
    LET value(held, refined) ==
            [threw |-> FALSE, structure |-> held, refinedStructure |-> refined]
    IN CASE content = "{}" -> value(Undefined, Undefined)
         [] content = "{\"structure\":[{\"title\":\"Launch\"}]}" ->
                value(Array(<<AiNode(Undefined, Str("Launch"), Undefined)>>), Undefined)
         [] content = "{\"structure\":[{\"id\":\"n1\",\"title\":\"Launch\",\"children\":[{\"title\":\"Plan\"}]}]}" ->
                value(Array(<<AiNode(Str("n1"), Str("Launch"),
                                     Array(<<AiNode(Undefined, Str("Plan"), Undefined)>>))>>),
                      Undefined)
         [] content = "{\"structure\":[{\"title\":\"Launch\",\"children\":{}}]}" ->
                value(Array(<<AiNode(Undefined, Str("Launch"), Object)>>), Undefined)
         [] content = "{\"structure\":{\"title\":\"Launch\"}}" -> value(Object, Undefined)
         [] content = "{\"structure\":[null]}" -> value(Array(<<Null>>), Undefined)
         [] content = "{\"refinedStructure\":[{\"title\":\"Plan\"}],\"changes\":[]}" ->
                value(Undefined, Array(<<AiNode(Undefined, Str("Plan"), Undefined)>>))
         [] content = "{\"refinedStructure\":[null]}" -> value(Undefined, Array(<<Null>>))
         [] OTHER -> [threw |-> TRUE]

\* Readings of Date.now()
Clock == {"1700000000000", "1700000000001"}

\* nodes.forEach over a JSON value: every node without an id gets
\* `${prefix}-${Date.now()}-${index}`, and the children are entered when they
\* have a positive length.  A TypeError when nodes is no array (forEach is not
\* a function) or holds null.  One reading of the clock serves the whole call.
RECURSIVE assignIdsRecursively(_, _, _)
assignIdsRecursively(nodes, prefix, now) ==
    IF nodes.t # "array" THEN [threw |-> TRUE]
    ELSE LET step[i \in 0..Len(nodes.a)] ==
                 IF i = 0 THEN [threw |-> FALSE, a |-> <<>>]
                 ELSE LET before == step[i - 1]
                          node == nodes.a[i]
                          id == IF Truthy(node.id) THEN node.id
                                ELSE Str(prefix \o "-" \o now \o "-" \o Digits[i])
                          below == IF node.children.t = "array" /\ Len(node.children.a) > 0
                                   THEN assignIdsRecursively(node.children,
                                                             id.s \o "-child", now)
                                   ELSE [threw |-> FALSE, a |-> node.children]
                      IN IF before.threw \/ node = Null THEN [threw |-> TRUE]
                         ELSE IF below.threw THEN [threw |-> TRUE]
                         ELSE [threw |-> FALSE,
                               a |-> Append(before.a,
                                            AiNode(id, node.title,
                                                   IF node.children.t = "array"
                                                      /\ Len(node.children.a) > 0
                                                   THEN Array(below.a)
                                                   ELSE node.children))]
         IN step[Len(nodes.a)]

\* AIService.countNodes: nodes.length plus the count of every truthy children
\* value; a TypeError when nodes is no array or holds null
RECURSIVE AIService_countNodes(_)
AIService_countNodes(nodes) ==
    IF nodes.t # "array" THEN [threw |-> TRUE]
    ELSE LET step[i \in 0..Len(nodes.a)] ==
                 IF i = 0 THEN [threw |-> FALSE, n |-> Len(nodes.a)]
                 ELSE LET before == step[i - 1]
                          node == nodes.a[i]
                          below == AIService_countNodes(node.children)
                      IN IF before.threw \/ node = Null THEN [threw |-> TRUE]
                         ELSE IF node.children \in {Undefined, Null} THEN before
                         ELSE IF below.threw THEN [threw |-> TRUE]
                         ELSE [threw |-> FALSE, n |-> before.n + below.n]
         IN step[Len(nodes.a)]

\* The parsed structure with ids assigned, [] when the answer has none; throws
\* 'Invalid AI response format' when JSON.parse or the id assignment throws
parseHTAResponse(content, now) ==
    LET parsed == JSONparse(content)
        assigned == assignIdsRecursively(parsed.structure, "node", now)
    IN IF parsed.threw THEN [threw |-> TRUE]
       ELSE IF parsed.structure = Undefined
       THEN [threw |-> FALSE, structure |-> Array(<<>>), modelUsed |-> primaryModel]
       ELSE IF assigned.threw THEN [threw |-> TRUE]
       ELSE [threw |-> FALSE, structure |-> Array(assigned.a), modelUsed |-> primaryModel]

parseRefinementResponse(content, now) ==
    LET parsed == JSONparse(content)
        assigned == assignIdsRecursively(parsed.refinedStructure, "node", now)
    IN IF parsed.threw THEN [threw |-> TRUE]
       ELSE IF parsed.refinedStructure = Undefined
       THEN [threw |-> FALSE, refinedStructure |-> Array(<<>>)]
       ELSE IF assigned.threw THEN [threw |-> TRUE]
       ELSE [threw |-> FALSE, refinedStructure |-> Array(assigned.a)]

\* What openai.chat.completions.create may do: reject, or resolve with a
\* completion whose first choice has this content (Undefined: none)
Rejected == [kind |-> "rejected"]
Completion(content) == [kind |-> "completion", content |-> content]
AiReplies ==
    {Rejected, Completion(Undefined)} \cup {Completion(Str(c)) : c \in AiContents \cup {""}}

\* `response.choices[0]?.message?.content || '{}'`
ContentOf(answer) ==
    IF Truthy(answer.content) THEN answer.content.s ELSE "{}"

Pending == [kind |-> "pending"]
Succeeded(result) == [kind |-> "returned", result |-> result]
Failed(message) == [kind |-> "threw", message |-> message]

\* generateHTA from the point its await on the primary model settles: the
\* outcome, or "fallback" when the catch block is entered
generateHTA_afterPrimary(answer, now) ==
    LET result == parseHTAResponse(ContentOf(answer), now)
    IN IF answer = Rejected THEN [caught |-> TRUE]
       ELSE IF result.threw THEN [caught |-> TRUE]
       ELSE IF AIService_countNodes(result.structure).threw THEN [caught |-> TRUE]
       ELSE [caught |-> FALSE,
             outcome |-> Succeeded([structure |-> result.structure,
                                    modelUsed |-> primaryModel])]

\* generateHTAWithFallback from the point its await settles, inside the inner
\* try of generateHTA
generateHTAWithFallback(answer, now) ==
    LET result == parseHTAResponse(ContentOf(answer), now)
    IN IF answer = Rejected \/ result.threw THEN Failed("AI service unavailable")
       ELSE Succeeded([structure |-> result.structure, modelUsed |-> fallbackModel])

\* refineHTA from the point its await settles
refineHTA_afterCall(answer, now) ==
    LET result == parseRefinementResponse(ContentOf(answer), now)
    IN IF answer = Rejected \/ result.threw THEN Failed("Failed to refine HTA structure")
       ELSE Succeeded([refinedStructure |-> result.refinedStructure])

\* Structures a refinement request may carry (z.array(z.any()))
RefinementStructures ==
    {Array(<<>>),
     Array(<<AiNode(Str("n1"), Str("Launch"), Undefined)>>),
     Array(<<AiNode(Str("n1"), Str("Launch"), Object)>>)}

-----------------------------------------------------------------------------
(* Actions *)

WalkIdle == [pc |-> "idle", stack |-> <<>>, ret |-> FALSE, start |-> Null]

\* calculateScore has not been applied on its own
NotScored == [called |-> FALSE]

\* No AI request in progress and none finished; an empty table; no call made
NoOutcome == [kind |-> "none"]
AiIdle == [pc |-> "idle", op |-> "none", calls |-> <<>>, outcome |-> NoOutcome, served |-> 0]
NoReply == [op |-> "none"]
NoTemplates == [rows |-> <<>>, issued |-> 0]
ServicesIdle ==
    /\ ai = AiIdle
    /\ templates = NoTemplates
    /\ reply = NoReply

\* Variant: the call reverses the root list it was given, in place
Validate_reversing(c) ==
    /\ returned' = [returned EXCEPT ![c] = Append(@, validateHTA(structure[c]))]
    /\ structure' = [structure EXCEPT
                        ![c] = [i \in 1..Len(@) |-> @[Len(@) + 1 - i]]]
    /\ UNCHANGED <<walk, scored, ai, templates, reply>>

\* One synchronous call of validateHTA by caller c.  The call only reads its
\* argument: no statement of the class assigns to a node or to a list.
Validate(c) ==
    /\ returned' = [returned EXCEPT ![c] = Append(@, validateHTA(structure[c]))]
    /\ structure' = structure
    /\ UNCHANGED <<walk, scored, ai, templates, reply>>

\* One caller holding one forest
InitOne(maxNodes, Shapes(_), LabelsAt(_), IdsAt(_), Admit(_)) ==
    /\ \E n \in 0..maxNodes : \E parent \in Shapes(n) :
          \E labels \in [1..n -> LabelsAt(n)] : \E ids \in IdsAt(n) :
             /\ NullsAreLeaves(parent, labels)
             /\ Admit(labels)
             /\ structure = <<Nest(parent, labels, ids)>>
    /\ returned = <<<<>>>>
    /\ walk = WalkIdle
    /\ scored = NotScored
    /\ ServicesIdle

\* Two callers, each holding a forest of its own
Init ==
    /\ \E n1 \in 0..PairNodes : \E parent1 \in ParentVectors(n1) :
          \E labels1 \in [1..n1 -> PairLabelsAt(n1)] :
             \E n2 \in 0..PairNodes : \E parent2 \in ParentVectors(n2) :
                \E labels2 \in [1..n2 -> PairLabelsAt(n2)] :
                   structure = <<Nest(parent1, labels1, PositionIds(n1)),
                                 Nest(parent2, labels2, PositionIds(n2))>>
    /\ returned = <<<<>>, <<>>>>
    /\ walk = WalkIdle
    /\ scored = NotScored
    /\ ServicesIdle

\* Several callers, each calling validateHTA on its own forest, in any order
Next == \E c \in DOMAIN structure : Len(returned[c]) < MaxCalls /\ Validate(c)

Spec == Init /\ [][Next]_vars

\* One caller, one call
NextOne == returned[1] = <<>> /\ Validate(1)

InitMalformed == InitOne(MalformedNodes, ParentVectors, MalformedLabelsAt, IdsByPosition, AnyLabels)
SpecMalformed == InitMalformed /\ [][NextOne]_vars

InitHierarchy == InitOne(HierarchyNodes, ParentVectors, HierarchyLabelsAt, IdsByPosition, AnyLabels)
SpecHierarchy == InitHierarchy /\ [][NextOne]_vars

InitDependencies ==
    InitOne(DependencyNodes, DependencyShapes, DependencyLabels, IdsWithDuplicate,
            WithinDependencyEdges)
SpecDependencies == InitDependencies /\ [][NextOne]_vars

InitIds == InitOne(IdNodes, DependencyShapes, IdLabels, IdsFromPool, AnyLabels)
SpecIds == InitIds /\ [][NextOne]_vars

\* The forest with the estimate of every node whose id is in reportedIds set to 0
RECURSIVE ClampReported(_, _)
ClampReported(nodes, reportedIds) ==
    [i \in 1..Len(nodes) |->
        [nodes[i] EXCEPT
            !.estimatedHours = IF nodes[i].id \in reportedIds THEN Number(0) ELSE @,
            !.children = ClampReported(@, reportedIds)]]

\* Caller c acts on the NEGATIVE_ESTIMATE issues of its first result: it sets
\* the estimate of every node so reported to 0 and has the forest validated
\* again
ValidateFixed(c) ==
    /\ Len(returned[c]) = 1
    /\ returned[c][1].kind = "returned"
    /\ LET issues == returned[c][1].result.issues
           reported == {issues[i].nodeId :
                           i \in {j \in 1..Len(issues) : issues[j].code = "NEGATIVE_ESTIMATE"}}
           fixed == ClampReported(structure[c], reported)
       IN /\ reported # {}
          /\ structure' = [structure EXCEPT ![c] = fixed]
          /\ returned' = [returned EXCEPT ![c] = Append(@, validateHTA(fixed))]
    /\ UNCHANGED <<walk, scored, ai, templates, reply>>

InitEstimates ==
    InitOne(EstimateNodes, ParentVectors, EstimateLabels, IdsByPosition, AnyLabels)

NextEstimates ==
    \/ NextOne
    \/ ValidateFixed(1)

SpecEstimates == InitEstimates /\ [][NextEstimates]_vars

InitRanks ==
    InitOne(RankNodes, ParentVectors, RankLabels, IdsByPosition, AnyLabels)

SpecRanks == InitRanks /\ [][NextOne]_vars

InitTitles ==
    InitOne(TitleNodes, ParentVectors, TitleLabels, IdsByPosition, AnyLabels)

SpecTitles == InitTitles /\ [][NextOne]_vars

InitBudget ==
    InitOne(BudgetNodes, ParentVectors, BudgetLabels, IdsByPosition, AnyLabels)

SpecBudget == InitBudget /\ [][NextOne]_vars

InitFan ==
    /\ \E k1 \in 0..FanChildren : \E k2 \in 0..FanChildren :
          \E rootType \in FanTypes : \E innerType \in FanTypes :
             /\ k1 = 0 => k2 = 0
             /\ structure = <<Nest(FanParents(k1, k2),
                                   FanLabels(k1, k2, rootType, innerType),
                                   FanIds(FanSize(k1, k2)))>>
    /\ returned = <<<<>>>>
    /\ walk = WalkIdle
    /\ scored = NotScored
    /\ ServicesIdle

SpecFan == InitFan /\ [][NextOne]_vars

InitDeep ==
    /\ \E s \in 1..DeepLevels : \E w \in 0..DeepWidth : \E b \in 0..DeepWidth :
          structure = <<Nest(DeepParents(s, w, b), DeepLabels(s, w, b),
                             FanIds(DeepSize(s, w, b)))>>
    /\ returned = <<<<>>>>
    /\ walk = WalkIdle
    /\ scored = NotScored
    /\ ServicesIdle

SpecDeep == InitDeep /\ [][NextOne]_vars

\* calculateScore applied to the arguments held in scored
Score ==
    /\ ~scored.called
    /\ scored' = [called |-> TRUE, issues |-> scored.issues, metrics |-> scored.metrics,
                  score |-> calculateScore(scored.issues, scored.metrics)]
    /\ UNCHANGED <<structure, returned, walk, ai, templates, reply>>

\* Any list of up to ScoreIssues issues of the kinds and severities of
\* ValidationIssue, and metrics as calculateMetrics rounds them
InitScore ==
    /\ \E n \in 0..ScoreIssues : \E issues \in [1..n -> ScoredIssues] :
          \E completeness \in ScoredCompleteness : \E feasibility \in ScoredFeasibility :
             scored = [called |-> FALSE, issues |-> issues,
                       metrics |-> [completeness |-> Num(completeness),
                                    feasibility |-> feasibility]]
    /\ structure = <<<<>>>>
    /\ returned = <<<<>>>>
    /\ walk = WalkIdle
    /\ ServicesIdle

SpecScore == InitScore /\ [][Score]_vars

\* generateSuggestions applied to the arguments held in scored
Suggest ==
    /\ ~scored.called
    /\ scored' = [called |-> TRUE, issues |-> scored.issues, metrics |-> scored.metrics,
                  suggestions |-> generateSuggestions(scored.issues, scored.metrics)]
    /\ UNCHANGED <<structure, returned, walk, ai, templates, reply>>

\* Any list of up to SuggestIssues issues and metrics around the thresholds
InitSuggest ==
    /\ \E n \in 0..SuggestIssues : \E issues \in [1..n -> SuggestedIssues] :
          \E depth \in SuggestedDepth : \E breadth \in SuggestedBreadth :
          \E completeness \in SuggestedCompleteness :
          \E feasibility \in SuggestedFeasibility :
             scored = [called |-> FALSE, issues |-> issues,
                       metrics |-> [depth |-> depth, breadth |-> breadth,
                                    completeness |-> completeness,
                                    feasibility |-> feasibility]]
    /\ structure = <<<<>>>>
    /\ returned = <<<<>>>>
    /\ walk = WalkIdle
    /\ ServicesIdle

SpecSuggest == InitSuggest /\ [][Suggest]_vars

-----------------------------------------------------------------------------
(* hasCircularDependency step by step: one frame per activation, holding the *)
(* node, its own copy of visited, the index i of the dependency the for loop *)
(* is at (0 before the visited test) and the value r its last recursive call *)
(* returned.  The walk runs on structure[1].                                 *)

WalkNodes == 3
WalkEdges == 3

WithinWalkEdges(labels) == TotalDependencies(labels) <= WalkEdges

\* The walk reads the forest only through findNodeById; the forests are lists
\* of roots
WalkShapes(n) == {FlatShape(n)}

\* Dependency lists without a repeated entry
WalkLabels(n) ==
    {label \in DependencyLabels(n) :
        Len(label.dependencies) = 2 => label.dependencies[1] # label.dependencies[2]}

\* Deepest recursion the model follows
MaxStack == WalkNodes + 2

Frame(node, visited) == [node |-> node, visited |-> visited, i |-> 0, r |-> "none"]

Top == walk.stack[Len(walk.stack)]

SetTop(frame) == [walk EXCEPT !.stack[Len(walk.stack)] = frame]

\* `return value` of the top activation: to the activation below it, or out of
\* the walk
WalkReturn(value) ==
    IF Len(walk.stack) = 1
    THEN [walk EXCEPT !.pc = "done", !.stack = <<>>, !.ret = value]
    ELSE [walk EXCEPT
            !.stack = [SubSeq(walk.stack, 1, Len(walk.stack) - 1)
                          EXCEPT ![Len(walk.stack) - 1].r =
                                    IF value THEN "true" ELSE "false"]]

\* validateDependencies calls the walk on a node with a non-empty dependencies
\* list, with a fresh visited set
WalkStart ==
    /\ walk.pc = "idle"
    /\ \E k \in 1..Len(traverseNodes(structure[1])) :
          LET node == traverseNodes(structure[1])[k]
          IN /\ Len(node.dependencies) > 0
             /\ walk' = [pc |-> "running", stack |-> <<Frame(node, {})>>,
                         ret |-> FALSE, start |-> node]
    /\ UNCHANGED <<structure, returned, scored, ai, templates, reply>>

\* Variant: the node's id is never added to visited
WalkEnter_noVisited ==
    /\ walk.pc = "running"
    /\ Top.i = 0
    /\ walk' = IF Top.node.id \in Top.visited
               THEN WalkReturn(TRUE)
               ELSE SetTop([Top EXCEPT !.i = 1])
    /\ UNCHANGED <<structure, returned, scored, ai, templates, reply>>

\* if (visited.has(node.id)) return true;  visited.add(node.id)
WalkEnter ==
    /\ walk.pc = "running"
    /\ Top.i = 0
    /\ walk' = IF Top.node.id \in Top.visited
               THEN WalkReturn(TRUE)
               ELSE SetTop([Top EXCEPT !.visited = @ \cup {Top.node.id}, !.i = 1])
    /\ UNCHANGED <<structure, returned, scored, ai, templates, reply>>

\* One turn of the for loop: look the dependency up and recurse on a copy of
\* visited, or skip an id that no node carries
WalkNextDependency ==
    /\ walk.pc = "running"
    /\ Top.i >= 1 /\ Top.i <= Len(Top.node.dependencies)
    /\ Top.r = "none"
    /\ LET depNode == findNodeById(structure[1], Str(Top.node.dependencies[Top.i]))
       IN IF depNode = Null
          THEN walk' = SetTop([Top EXCEPT !.i = @ + 1])
          ELSE /\ Len(walk.stack) < MaxStack
               /\ walk' = [walk EXCEPT !.stack = Append(@, Frame(depNode, Top.visited))]
    /\ UNCHANGED <<structure, returned, scored, ai, templates, reply>>

\* The recursive call came back: return true, or go on with the next dependency
WalkAfterCall ==
    /\ walk.pc = "running"
    /\ Top.r # "none"
    /\ walk' = IF Top.r = "true"
               THEN WalkReturn(TRUE)
               ELSE SetTop([Top EXCEPT !.i = @ + 1, !.r = "none"])
    /\ UNCHANGED <<structure, returned, scored, ai, templates, reply>>

\* The loop ran out of dependencies: return false
WalkExhausted ==
    /\ walk.pc = "running"
    /\ Top.i > Len(Top.node.dependencies)
    /\ walk' = WalkReturn(FALSE)
    /\ UNCHANGED <<structure, returned, scored, ai, templates, reply>>

InitWalk == InitOne(WalkNodes, WalkShapes, WalkLabels, IdsWithDuplicate, WithinWalkEdges)

NextWalk ==
    \/ WalkStart
    \/ WalkEnter
    \/ WalkNextDependency
    \/ WalkAfterCall
    \/ WalkExhausted

\* A synchronous call keeps running: a step that can be taken is taken
SpecWalk == InitWalk /\ [][NextWalk]_vars /\ WF_vars(NextWalk)

-----------------------------------------------------------------------------
(* Calls on the template service by several tenants *)

\* A tenant stores a template of its own, public or not
StoreTemplate ==
    /\ templates.issued < MaxTemplates
    /\ \E tenantId \in Tenants : \E isPublic \in BOOLEAN :
          LET template == [name |-> "Plan A", structure |-> <<>>, isPublic |-> isPublic,
                           createdBy |-> tenantId, tenantId |-> tenantId,
                           metadata |-> [createdFromProject |-> TRUE]]
              done == createTemplate(templates, template)
          IN /\ templates' = done.table
             /\ reply' = [op |-> "createTemplate", id |-> done.result.id,
                          tenantId |-> tenantId, threw |-> FALSE, result |-> done.result]
    /\ UNCHANGED <<structure, returned, walk, scored, ai>>

GetTemplate ==
    /\ \E id \in KnownIds(templates) : \E tenantId \in Tenants :
          LET done == getTemplate(templates, id, tenantId)
          IN /\ templates' = done.table
             /\ reply' = [op |-> "getTemplate", id |-> id, tenantId |-> tenantId,
                          threw |-> FALSE, result |-> done.result]
    /\ UNCHANGED <<structure, returned, walk, scored, ai>>

UpdateTemplate ==
    /\ \E id \in KnownIds(templates) : \E tenantId \in Tenants :
       \E updates \in TemplateUpdates :
          LET done == updateTemplate(templates, id, updates, tenantId)
          IN /\ templates' = done.table
             /\ reply' = [op |-> "updateTemplate", id |-> id, tenantId |-> tenantId,
                          threw |-> done.threw,
                          result |-> IF done.threw THEN Null ELSE done.result]
    /\ UNCHANGED <<structure, returned, walk, scored, ai>>

DeleteTemplate ==
    /\ \E id \in KnownIds(templates) : \E tenantId \in Tenants :
          LET done == deleteTemplate(templates, id, tenantId)
          IN /\ templates' = done.table
             /\ reply' = [op |-> "deleteTemplate", id |-> id, tenantId |-> tenantId,
                          threw |-> FALSE, result |-> done.result]
    /\ UNCHANGED <<structure, returned, walk, scored, ai>>

InitTemplates ==
    /\ structure = <<<<>>>>
    /\ returned = <<<<>>>>
    /\ walk = WalkIdle
    /\ scored = NotScored
    /\ ServicesIdle

NextTemplates ==
    \/ StoreTemplate
    \/ GetTemplate
    \/ UpdateTemplate
    \/ DeleteTemplate

SpecTemplates == InitTemplates /\ [][NextTemplates]_vars

-----------------------------------------------------------------------------
(* A request to create a template from the structure held in structure[1] *)

CreateTemplateRequest ==
    /\ reply = NoReply
    /\ \E user \in Users : \E body \in TemplateBodies(structure[1]) :
       \E dbUp \in BOOLEAN :
          LET handled == HTAController_createTemplate(templates, body, user, dbUp)
          IN /\ templates' = handled.table
             /\ reply' = [op |-> "POST /templates", user |-> user, body |-> body,
                          validation |-> handled.validation,
                          status |-> handled.status, answer |-> handled.body]
    /\ UNCHANGED <<structure, returned, walk, scored, ai>>

InitController ==
    InitOne(RequestNodes, ParentVectors, MalformedLabelsAt, IdsByPosition, AnyLabels)

SpecController == InitController /\ [][CreateTemplateRequest]_vars

-----------------------------------------------------------------------------
(* AIService requests, one step per await *)

Call(model, answer) == [model |-> model, answer |-> answer]

\* generateHTA up to its await: the prompt is built and the primary model asked
GenerateHTA ==
    /\ ai.pc = "idle"
    /\ ai.served < AiRequests
    /\ ai' = [pc |-> "primary", op |-> "generateHTA",
              calls |-> <<Call(primaryModel, Pending)>>, outcome |-> NoOutcome,
              served |-> ai.served]
    /\ UNCHANGED <<structure, returned, walk, scored, templates, reply>>

\* The primary call settles: the result is returned, or the catch block asks
\* the fallback model
PrimaryResponds ==
    /\ ai.pc = "primary"
    /\ \E answer \in AiReplies : \E now \in Clock :
          LET after == generateHTA_afterPrimary(answer, now)
              settled == <<Call(primaryModel, answer)>>
          IN ai' = IF after.caught
                   THEN [ai EXCEPT !.pc = "fallback",
                                   !.calls = Append(settled, Call(fallbackModel, Pending))]
                   ELSE [ai EXCEPT !.pc = "idle", !.calls = settled,
                                   !.outcome = after.outcome, !.served = @ + 1]
    /\ UNCHANGED <<structure, returned, walk, scored, templates, reply>>

\* The fallback call settles
FallbackResponds ==
    /\ ai.pc = "fallback"
    /\ \E answer \in AiReplies : \E now \in Clock :
          ai' = [ai EXCEPT !.pc = "idle",
                           !.calls = <<ai.calls[1], Call(fallbackModel, answer)>>,
                           !.outcome = generateHTAWithFallback(answer, now),
                           !.served = @ + 1]
    /\ UNCHANGED <<structure, returned, walk, scored, templates, reply>>

\* refineHTA up to its await: the nodes of the request are counted for the
\* log, inside the try block, and the primary model asked
RefineHTA ==
    /\ ai.pc = "idle"
    /\ ai.served < AiRequests
    /\ \E requested \in RefinementStructures :
          ai' = IF AIService_countNodes(requested).threw
                THEN [pc |-> "idle", op |-> "refineHTA", calls |-> <<>>,
                      outcome |-> Failed("Failed to refine HTA structure"),
                      served |-> ai.served + 1]
                ELSE [pc |-> "refine", op |-> "refineHTA",
                      calls |-> <<Call(primaryModel, Pending)>>, outcome |-> NoOutcome,
                      served |-> ai.served]
    /\ UNCHANGED <<structure, returned, walk, scored, templates, reply>>

RefineResponds ==
    /\ ai.pc = "refine"
    /\ \E answer \in AiReplies : \E now \in Clock :
          ai' = [ai EXCEPT !.pc = "idle",
                           !.calls = <<Call(primaryModel, answer)>>,
                           !.outcome = refineHTA_afterCall(answer, now),
                           !.served = @ + 1]
    /\ UNCHANGED <<structure, returned, walk, scored, templates, reply>>

InitAI ==
    /\ structure = <<<<>>>>
    /\ returned = <<<<>>>>
    /\ walk = WalkIdle
    /\ scored = NotScored
    /\ ServicesIdle

NextAI ==
    \/ GenerateHTA
    \/ PrimaryResponds
    \/ FallbackResponds
    \/ RefineHTA
    \/ RefineResponds

SpecAI == InitAI /\ [][NextAI]_vars

-----------------------------------------------------------------------------
(* Properties *)

\* Every outcome recorded so far, for every caller
Outcomes == {<<c, k>> : c \in DOMAIN returned, k \in 1..MaxCalls}
Recorded == {ck \in Outcomes : ck[2] <= Len(returned[ck[1]])}
OutcomeAt(ck) == returned[ck[1]][ck[2]]
InputAt(ck) == structure[ck[1]]
Results == {OutcomeAt(ck).result : ck \in {x \in Recorded : OutcomeAt(x).kind = "returned"}}

IsDegraded(result) ==
    \E i \in 1..Len(result.issues) : result.issues[i].code = "VALIDATION_ERROR"

HasIssueOfType(result, type) ==
    \E i \in 1..Len(result.issues) : result.issues[i].type = type

\* C1: every result validateHTA returns, the degraded one included, has
\* isValid = TRUE exactly when its issues list holds no issue of type error.
C1_IsValidIffNoError ==
    \A result \in Results : result.isValid <=> ~HasIssueOfType(result, "error")

\* A returned result that is valid although it lists issues (warnings only)
C1_Witness ==
    \E result \in Results :
        result.isValid /\ HasIssueOfType(result, "warning") /\ ~IsDegraded(result)

\* C2: for every forest of zero or more roots the returned score is a number
\* between 0 and 100.  (Violated: the empty forest scores NaN.)
C2_ScoreInRange ==
    \A result \in Results : ~result.score.nan /\ result.score.v \in 0..100

\* C3: validateHTA never raises to its caller; an input it cannot traverse
\* yields the degraded result.  (Violated: a null entry raises out of
\* calculateMetrics, which runs before the try block.)
C3_NeverRaises ==
    \A ck \in Recorded : OutcomeAt(ck).kind = "returned"

\* C4: when a rule pass raises inside validateHTA, the call returns isValid =
\* FALSE, exactly one issue (error, VALIDATION_ERROR), score 0 and all five
\* metrics 0, and none of the issues pushed before the failure.
C4_DegradedResult ==
    \A ck \in Recorded :
        (~calculateMetrics(InputAt(ck)).threw /\ runPasses(InputAt(ck)).threw) =>
            /\ OutcomeAt(ck).kind = "returned"
            /\ LET result == OutcomeAt(ck).result
               IN /\ result.isValid = FALSE
                  /\ Len(result.issues) = 1
                  /\ result.issues[1].type = "error"
                  /\ result.issues[1].code = "VALIDATION_ERROR"
                  /\ result.score = Num(0)
                  /\ result.metrics = [depth |-> 0, breadth |-> 0, complexity |-> 0,
                                       completeness |-> Num(0), feasibility |-> 0]

\* A call whose node-field pass raised after the hierarchy pass had pushed issues
C4_Witness ==
    \E ck \in Recorded :
        /\ OutcomeAt(ck).kind = "returned"
        /\ runPasses(InputAt(ck)).threw
        /\ Len(runPasses(InputAt(ck)).issues) > 0

NodesOf(forest) == {traverseNodes(forest)[i] : i \in 1..Len(traverseNodes(forest))}

\* The normal results recorded, each with the forest it was computed from
NormalCalls ==
    {ck \in Recorded : OutcomeAt(ck).kind = "returned" /\ ~IsDegraded(OutcomeAt(ck).result)}

IssuesOn(result, code, nodeId) ==
    {i \in 1..Len(result.issues) :
        result.issues[i].code = code /\ result.issues[i].nodeId = nodeId}

IssuesCoded(result, code) ==
    {i \in 1..Len(result.issues) : result.issues[i].code = code}

\* How many issues of a code a node must carry, given whether the rule applies
Expect(result, code, node, applies) ==
    Cardinality(IssuesOn(result, code, node.id)) = IF applies THEN 1 ELSE 0

\* The entries of the dependencies list of the node at place k of order (the
\* nodes in document order) that are the id of no node
DanglingEntries(order, k) ==
    {i \in 1..Len(order[k].dependencies) :
        \A m \in 1..Len(order) : order[m].id # Str(order[k].dependencies[i])}

\* C8: every dependency entry that is the id of no node of the forest yields
\* one INVALID_DEPENDENCY error (autoFixable) carrying the depending node's
\* id, and an entry that is the id of a node anywhere in the forest yields
\* none: the errors carrying an id are as many as the dangling entries of the
\* nodes carrying it.
C8_InvalidDependency ==
    \A ck \in NormalCalls :
        LET result == OutcomeAt(ck).result
            order == traverseNodes(InputAt(ck))
            dangling == [k \in 1..Len(order) |-> Cardinality(DanglingEntries(order, k))]
            danglingAt(k) == dangling[k]
        IN /\ \A k \in 1..Len(order) :
                 Cardinality(IssuesOn(result, "INVALID_DEPENDENCY", order[k].id))
                     = SumOver(SortedSeq({m \in 1..Len(order) : order[m].id = order[k].id}),
                               danglingAt)
           /\ \A i \in IssuesCoded(result, "INVALID_DEPENDENCY") :
                 /\ result.issues[i].type = "error"
                 /\ result.issues[i].autoFixable = TRUE
                 /\ \E k \in 1..Len(order) : order[k].id = result.issues[i].nodeId

\* A node whose list holds one dangling entry and one entry naming a node
\* that is not its sibling (a descendant of a root)
C8_Witness ==
    \E ck \in NormalCalls :
        LET order == traverseNodes(InputAt(ck))
        IN /\ Len(InputAt(ck)) = 1
           /\ \E k \in 1..Len(order) :
                 /\ Len(order[k].dependencies) = 2
                 /\ Cardinality(DanglingEntries(order, k)) = 1
                 /\ \E m \in 3..Len(order) : order[m].id = Str(order[k].dependencies[1])
                 /\ Cardinality(IssuesOn(OutcomeAt(ck).result, "INVALID_DEPENDENCY",
                                         order[k].id)) = 1

\* The place of the node a dependency id denotes: the first node in document
\* order that carries it (0 when no node does)
Denotes(order, depId) ==
    IF \E m \in 1..Len(order) : order[m].id = Str(depId)
    THEN CHOOSE m \in 1..Len(order) :
            /\ order[m].id = Str(depId)
            /\ \A j \in 1..(m - 1) : order[j].id # Str(depId)
    ELSE 0

\* The places each place depends on
DependencyGraph(order) ==
    [k \in 1..Len(order) |->
        {Denotes(order, order[k].dependencies[i]) : i \in 1..Len(order[k].dependencies)}
            \ {0}]

RECURSIVE DependencyClosure(_, _)
DependencyClosure(graph, S) ==
    LET next == S \cup UNION {graph[k] : k \in S}
    IN IF next = S THEN S ELSE DependencyClosure(graph, next)

\* The node at place k lies on a dependency cycle: it is reachable from the
\* nodes it depends on
OnCycle(graph, k) == k \in DependencyClosure(graph, graph[k])

\* C9: for every dependency cycle (self, mutual or longer) a node on the cycle
\* receives a CIRCULAR_DEPENDENCY error that is not auto-fixable, and isValid
\* is FALSE.  Checked in the stronger form: every node on a cycle receives it.
\* A dependency id denotes the first node in document order that carries it.
C9_CycleReported ==
    \A ck \in NormalCalls :
        LET result == OutcomeAt(ck).result
            order == traverseNodes(InputAt(ck))
            graph == DependencyGraph(order)
        IN \A k \in 1..Len(order) :
              OnCycle(graph, k) =>
                  /\ \E i \in IssuesOn(result, "CIRCULAR_DEPENDENCY", order[k].id) :
                        result.issues[i].type = "error"
                        /\ result.issues[i].autoFixable = FALSE
                  /\ result.isValid = FALSE

\* A cycle through three nodes, none depending on itself, has been validated
C9_Witness ==
    \E ck \in NormalCalls :
        LET order == traverseNodes(InputAt(ck))
            graph == DependencyGraph(order)
        IN /\ Len(order) = 3
           /\ \A k \in 1..3 :
                 /\ Len(order[k].dependencies) = 1
                 /\ k \notin graph[k]
                 /\ OnCycle(graph, k)

Rank(type) ==
    CASE type = "objective" -> 0
      [] type = "strategy" -> 1
      [] type = "initiative" -> 2
      [] type = "task" -> 3
      [] type = "subtask" -> 4
      [] OTHER -> -1

\* The parent-child pairs <<parent, k>> (k the child's place) in which both
\* types are known and the child's rank is not strictly greater
MisrankedPairs(forest) ==
    {pk \in UNION {{<<parent, k>> : k \in 1..Len(parent.children)} :
                      parent \in NodesOf(forest)} :
        LET parent == pk[1]
            child == pk[1].children[pk[2]]
        IN Rank(parent.type) # -1 /\ Rank(child.type) # -1
           /\ Rank(child.type) <= Rank(parent.type)}

\* C10: the INVALID_HIERARCHY errors are as many as the parent-child pairs
\* with both types known and the child's rank not strictly greater than the
\* parent's; each carries the child's id and autoFixable = TRUE, and any such
\* pair makes isValid FALSE.
C10_InvalidHierarchy ==
    \A ck \in NormalCalls :
        LET result == OutcomeAt(ck).result
            pairs == MisrankedPairs(InputAt(ck))
        IN /\ Cardinality(IssuesCoded(result, "INVALID_HIERARCHY")) = Cardinality(pairs)
           /\ \A pk \in pairs :
                 Cardinality(IssuesOn(result, "INVALID_HIERARCHY",
                                      pk[1].children[pk[2]].id)) = 1
           /\ \A i \in IssuesCoded(result, "INVALID_HIERARCHY") :
                 result.issues[i].type = "error" /\ result.issues[i].autoFixable = TRUE
           /\ pairs # {} => result.isValid = FALSE

\* An objective root with one objective child: one INVALID_HIERARCHY, on the
\* child, and isValid FALSE
C10_Witness ==
    \E ck \in NormalCalls :
        LET forest == InputAt(ck)
            result == OutcomeAt(ck).result
        IN /\ Len(forest) = 1 /\ countNodes(forest) = 2
           /\ forest[1].type = "objective" /\ forest[1].children[1].type = "objective"
           /\ Cardinality(IssuesCoded(result, "INVALID_HIERARCHY")) = 1
           /\ Cardinality(IssuesOn(result, "INVALID_HIERARCHY",
                                    forest[1].children[1].id)) = 1
           /\ result.isValid = FALSE

\* C7: the cycle walk started from any dependent node ends, whatever the
\* dependency lists hold: self-dependencies, mutual and longer cycles,
\* dangling ids.
C7_WalkTerminates == (walk.pc = "running") ~> (walk.pc = "done")

\* A walk over a cycle of three nodes has ended, reporting the cycle
C7_Witness ==
    /\ walk.pc = "done"
    /\ walk.ret = TRUE
    /\ countNodes(structure[1]) = 3
    /\ \A k \in 1..3 :
          LET node == traverseNodes(structure[1])[k]
          IN Len(node.dependencies) = 1 /\ Str(node.dependencies[1]) # node.id

\* The step-by-step walk returns what the recursive definition returns
WalkAgrees ==
    walk.pc = "done" => walk.ret = hasCircularDependency(walk.start, structure[1], {})


-----------------------------------------------------------------------------
(* Hierarchy Pass on well-ranked forests *)

\* Every type is one of the five ranks and every child ranks strictly below
\* (has a greater rank index than) its parent
WellRanked(forest) ==
    \A node \in NodesOf(forest) :
        /\ Rank(node.type) # -1
        /\ \A i \in 1..Len(node.children) : Rank(node.children[i].type) > Rank(node.type)

\* C11: a forest in which every type is a known rank and every child's rank
\* index is strictly greater than its parent's gets no INVALID_HIERARCHY and no
\* INVALID_NODE_TYPE issue.
C11_WellRankedIsClean ==
    \A ck \in NormalCalls :
        WellRanked(InputAt(ck)) =>
            /\ IssuesCoded(OutcomeAt(ck).result, "INVALID_HIERARCHY") = {}
            /\ IssuesCoded(OutcomeAt(ck).result, "INVALID_NODE_TYPE") = {}

\* A well-ranked chain of three nodes that skips a rank (objective over
\* initiative) has been validated
C11_Witness ==
    \E ck \in NormalCalls :
        LET forest == InputAt(ck)
        IN /\ WellRanked(forest)
           /\ Len(forest) = 1 /\ countNodes(forest) = 3
           /\ forest[1].type = "objective"
           /\ Len(forest[1].children) = 1
           /\ forest[1].children[1].type = "initiative"
           /\ Len(forest[1].children[1].children) = 1

-----------------------------------------------------------------------------
(* Unknown types *)

\* The parent-child pairs of a forest, as <<parent, child>>
ParentChildPairs(forest) ==
    UNION {{<<parent, parent.children[j]>> : j \in 1..Len(parent.children)} :
              parent \in NodesOf(forest)}

\* C25: every node whose type is none of the five ranks gets exactly one
\* INVALID_NODE_TYPE error, autoFixable, wherever it sits, and every other node
\* none; no INVALID_HIERARCHY is reported on the child of a pair in which the
\* parent or the child has an unknown type; the nodes below a node of unknown
\* type are still checked: a misranked pair of known types there is reported.
C25_UnknownType ==
    \A ck \in NormalCalls :
        LET forest == InputAt(ck)
            result == OutcomeAt(ck).result
        IN /\ \A node \in NodesOf(forest) :
                 Expect(result, "INVALID_NODE_TYPE", node, Rank(node.type) = -1)
           /\ \A i \in IssuesCoded(result, "INVALID_NODE_TYPE") :
                 result.issues[i].type = "error" /\ result.issues[i].autoFixable = TRUE
           /\ \A pair \in ParentChildPairs(forest) :
                 Rank(pair[1].type) = -1 \/ Rank(pair[2].type) = -1
                     => IssuesOn(result, "INVALID_HIERARCHY", pair[2].id) = {}
           /\ \A pk \in MisrankedPairs(forest) :
                 IssuesOn(result, "INVALID_HIERARCHY", pk[1].children[pk[2]].id) # {}

\* A root of unknown type over a task over an objective: INVALID_NODE_TYPE on
\* the root, nothing on the task, INVALID_HIERARCHY on the objective below
C25_Witness ==
    \E ck \in NormalCalls :
        LET forest == InputAt(ck)
            result == OutcomeAt(ck).result
        IN /\ Len(forest) = 1 /\ countNodes(forest) = 3
           /\ forest[1].type = "epic"
           /\ Len(forest[1].children) = 1
           /\ forest[1].children[1].type = "task"
           /\ Len(forest[1].children[1].children) = 1
           /\ forest[1].children[1].children[1].type = "objective"
           /\ Cardinality(IssuesOn(result, "INVALID_NODE_TYPE", forest[1].id)) = 1
           /\ IssuesOn(result, "INVALID_HIERARCHY", forest[1].children[1].id) = {}
           /\ IssuesOn(result, "INVALID_HIERARCHY",
                       forest[1].children[1].children[1].id) # {}

-----------------------------------------------------------------------------
(* Shared, blank and missing ids *)

\* The proper (non-blank) ids carried by more than one node
SharedIds(order) ==
    {order[k].id : k \in {j \in 1..Len(order) :
        /\ BlankCheck(order[j].id) = "present"
        /\ \E m \in 1..Len(order) : m # j /\ order[m].id = order[j].id}}

\* C12: when two or more nodes carry the same id, the result reports it.
\* Stated in its weakest form: the result then lists at least one issue.
\* (Violated: two otherwise clean nodes sharing an id get an empty issues list
\* and isValid = TRUE; no pass compares the ids of two nodes.)
C12_DuplicateIdReported ==
    \A ck \in NormalCalls :
        SharedIds(traverseNodes(InputAt(ck))) # {} =>
            Len(OutcomeAt(ck).result.issues) > 0

\* The dependency entries (k, i) that are the id of no node with a proper id
UnresolvedEntries(order) ==
    {ki \in UNION {{<<k, i>> : i \in 1..Len(order[k].dependencies)} : k \in 1..Len(order)} :
        \A m \in 1..Len(order) :
            order[m].id = Str(order[ki[1]].dependencies[ki[2]])
                => BlankCheck(order[m].id) = "blank"}

\* C13: a node whose id is missing or blank gets a MISSING_ID error
\* (autoFixable) and is skipped by the by-id lookups: it is not in the id set,
\* so an entry that names only such nodes is reported as INVALID_DEPENDENCY
\* like any entry that names no node.  (Violated: the id set and findNodeById
\* take every id as it is, blank or not.)
C13_BlankIdSkipped ==
    \A ck \in NormalCalls :
        LET result == OutcomeAt(ck).result
            order == traverseNodes(InputAt(ck))
        IN /\ \A k \in 1..Len(order) :
                 BlankCheck(order[k].id) = "blank" =>
                     \E i \in IssuesOn(result, "MISSING_ID", order[k].id) :
                         result.issues[i].type = "error" /\ result.issues[i].autoFixable
           /\ Cardinality(IssuesCoded(result, "INVALID_DEPENDENCY"))
                 = Cardinality(UnresolvedEntries(order))

-----------------------------------------------------------------------------
(* Score *)

\* The penalty table of the scoring rule: suggestions carry no penalty
TablePenalty(issue) ==
    CASE issue.type = "suggestion" -> 0
      [] issue.type = "error" /\ issue.severity = "high" -> 15
      [] issue.type = "warning" /\ issue.severity = "high" -> 8
      [] issue.type = "error" /\ issue.severity = "medium" -> 10
      [] issue.type = "warning" /\ issue.severity = "medium" -> 5
      [] issue.type = "error" /\ issue.severity = "low" -> 5
      [] issue.type = "warning" /\ issue.severity = "low" -> 2

\* clamp to [0, 100] of round((100 - P + completeness + feasibility) / 3)
TableScore(issues, completeness, feasibility) ==
    LET blended == 100 - SumOver(issues, TablePenalty) + completeness + feasibility
        rounded == (2 * blended + 3) \div 6
    IN IF rounded < 0 THEN 0 ELSE IF rounded > 100 THEN 100 ELSE rounded

-----------------------------------------------------------------------------
(* Estimates *)

\* The result of caller 1's latest call, which validated structure[1] as it is now
Latest == returned[1][Len(returned[1])].result

IsNegative(h) == h # Undefined /\ h.n < 0

\* C15: a node gets a NEGATIVE_ESTIMATE error (autoFixable) exactly when its
\* estimatedHours is defined and below 0; once the value is replaced by 0 and
\* the forest validated again, the result holds no NEGATIVE_ESTIMATE for it.
C15_NegativeEstimate ==
    returned[1] # <<>> =>
        LET order == traverseNodes(structure[1])
            first == returned[1][1].result
        IN /\ \A k \in 1..Len(order) :
                 Cardinality(IssuesOn(Latest, "NEGATIVE_ESTIMATE", order[k].id))
                     = IF IsNegative(order[k].estimatedHours) THEN 1 ELSE 0
           /\ \A i \in IssuesCoded(Latest, "NEGATIVE_ESTIMATE") :
                 Latest.issues[i].type = "error" /\ Latest.issues[i].autoFixable
           /\ Len(returned[1]) = 2 =>
                 \A i \in IssuesCoded(first, "NEGATIVE_ESTIMATE") :
                     IssuesOn(Latest, "NEGATIVE_ESTIMATE", first.issues[i].nodeId) = {}

\* A leaf task was reported, its estimate was set to 0, and the second result
\* holds no NEGATIVE_ESTIMATE
C15_Witness ==
    /\ Len(returned[1]) = 2
    /\ IssuesCoded(returned[1][1].result, "NEGATIVE_ESTIMATE") # {}
    /\ IssuesCoded(Latest, "NEGATIVE_ESTIMATE") = {}
    /\ \E k \in 1..Len(traverseNodes(structure[1])) :
          LET node == traverseNodes(structure[1])[k]
          IN /\ node.children = <<>>
             /\ node.estimatedHours = Number(0)
             /\ IssuesOn(returned[1][1].result, "NEGATIVE_ESTIMATE", node.id) # {}

\* Sum of the estimates of the nodes without children
LeafTotal(order) ==
    LET hours(node) ==
            IF node.children = <<>> /\ node.estimatedHours # Undefined
            THEN node.estimatedHours.n ELSE 0
    IN SumOver(order, hours)

\* C16: the result holds a LARGE_PROJECT warning (one) exactly when the sum of
\* estimatedHours over the nodes without children is above 2000; estimates of
\* nodes with children do not count, and a total of exactly 2000 gives none.
C16_LargeProject ==
    returned[1] # <<>> =>
        LET total == LeafTotal(traverseNodes(structure[1]))
        IN /\ Cardinality(IssuesCoded(Latest, "LARGE_PROJECT"))
                 = IF total > 2000 THEN 1 ELSE 0
           /\ \A i \in IssuesCoded(Latest, "LARGE_PROJECT") :
                 Latest.issues[i].type = "warning"

\* Two leaves of 1000 hours under a parent of 1001 hours: the leaves total
\* exactly 2000 and no LARGE_PROJECT is reported
C16_Witness ==
    /\ returned[1] # <<>>
    /\ Len(structure[1]) = 1
    /\ structure[1][1].estimatedHours = Number(1001)
    /\ Len(structure[1][1].children) = 2
    /\ LeafTotal(traverseNodes(structure[1])) = 2000
    /\ IssuesCoded(Latest, "LARGE_PROJECT") = {}

\* C17: the feasibility metric is round(min(100, 100 - T / 50)) when the leaf
\* total T satisfies 0 < T < 2000, and 50 otherwise (T <= 0 or T >= 2000).
\* round(x) is floor(x + 1/2); with x = (5000 - T) / 50 that is
\* floor((2 * (5000 - T) + 50) / 100).
C17_Feasibility ==
    returned[1] # <<>> =>
        LET total == LeafTotal(traverseNodes(structure[1]))
            rounded == (2 * (5000 - total) + 50) \div 100
        IN Latest.metrics.feasibility =
              IF 0 < total /\ total < 2000
              THEN (IF rounded > 100 THEN 100 ELSE rounded)
              ELSE 50

\* A total of 1025 hours: 100 - 20.5 = 79.5 rounds to 80
C17_Witness ==
    /\ returned[1] # <<>>
    /\ LeafTotal(traverseNodes(structure[1])) = 1025
    /\ Latest.metrics.feasibility = 80

\* C19: the completeness metric is round(100 * (E + D) / (2 * N)), N the
\* number of nodes, E the nodes with a positive estimatedHours, D the nodes
\* with a non-blank description: the counts the Completeness Pass uses.
\* (Violated: the metric counts every estimate that is present, 0 and negative
\* ones included, and every description that is not the empty string.)
C19_Completeness ==
    returned[1] # <<>> =>
        LET order == traverseNodes(structure[1])
            positive(node) == node.estimatedHours # Undefined /\ node.estimatedHours.n > 0
            described(node) == BlankCheck(node.description) = "present"
            total == Len(order)
            counted == Count(order, positive) + Count(order, described)
        IN total > 0 =>
              Latest.metrics.completeness = Num((200 * counted + 2 * total) \div (4 * total))

-----------------------------------------------------------------------------
(* Children count *)

\* C18: the result holds exactly one TOO_MANY_CHILDREN warning carrying a
\* node's id when the node has more than 8 children and none when it has 8 or
\* fewer, whether or not the node's type is a known rank.
C18_TooManyChildren ==
    \A ck \in NormalCalls :
        LET result == OutcomeAt(ck).result
            order == traverseNodes(InputAt(ck))
        IN /\ \A k \in 1..Len(order) :
                 Cardinality(IssuesOn(result, "TOO_MANY_CHILDREN", order[k].id))
                     = IF Len(order[k].children) > 8 THEN 1 ELSE 0
           /\ \A i \in IssuesCoded(result, "TOO_MANY_CHILDREN") :
                 result.issues[i].type = "warning"

\* A root of unknown type with 9 children is reported; its first child, with
\* 8 children, is not
C18_Witness ==
    \E ck \in NormalCalls :
        LET root == InputAt(ck)[1]
            result == OutcomeAt(ck).result
        IN /\ Rank(root.type) = -1
           /\ Len(root.children) = 9
           /\ Len(root.children[1].children) = 8
           /\ Cardinality(IssuesOn(result, "TOO_MANY_CHILDREN", root.id)) = 1
           /\ IssuesOn(result, "TOO_MANY_CHILDREN", root.children[1].id) = {}

-----------------------------------------------------------------------------
(* Which nodes the cycle walk reports *)

\* A walk along dependency edges from place k comes back to an id it has
\* already passed: some place m on the way (k itself or a place reachable from
\* it) reaches, in one step or more, a place carrying m's id.  With distinct
\* ids this says that a dependency cycle is reachable from k.
ReachesCycle(order, graph, k) ==
    \E m \in {k} \cup DependencyClosure(graph, graph[k]) :
        \E n \in DependencyClosure(graph, graph[m]) : order[n].id = order[m].id

\* C20: a node with a non-empty dependencies list gets a CIRCULAR_DEPENDENCY
\* error exactly when a dependency cycle is reachable from it along dependency
\* edges; it need not lie on the cycle, a node from which only acyclic paths
\* start gets none, and parent/child edges play no part.
C20_CycleReachable ==
    \A ck \in NormalCalls :
        LET result == OutcomeAt(ck).result
            order == traverseNodes(InputAt(ck))
            graph == DependencyGraph(order)
        IN \A k \in 1..Len(order) :
              Cardinality(IssuesOn(result, "CIRCULAR_DEPENDENCY", order[k].id))
                  = Cardinality({m \in 1..Len(order) :
                                    /\ order[m].id = order[k].id
                                    /\ Len(order[m].dependencies) > 0
                                    /\ ReachesCycle(order, graph, m)})

\* In a chain of parent, child and grandchild with distinct ids, a node that
\* lies on no cycle is reported because it depends on a node of a mutual pair,
\* and the nodes of the pair are reported too
C20_Witness ==
    \E ck \in NormalCalls :
        LET result == OutcomeAt(ck).result
            order == traverseNodes(InputAt(ck))
            graph == DependencyGraph(order)
        IN /\ Len(InputAt(ck)) = 1 /\ Len(order) = 3
           /\ \A k \in 1..3 : \A m \in 1..3 : order[k].id = order[m].id => k = m
           /\ \E k \in 1..3 :
                 /\ ~OnCycle(graph, k)
                 /\ Cardinality(IssuesOn(result, "CIRCULAR_DEPENDENCY", order[k].id)) = 1
           /\ Cardinality(IssuesCoded(result, "CIRCULAR_DEPENDENCY")) = 3

-----------------------------------------------------------------------------
(* Depth and breadth *)

\* How many nodes of the forest lie deeper than limit, the given nodes being
\* at the given depth
RECURSIVE NodesDeeperThan(_, _, _)
NodesDeeperThan(nodes, depth, limit) ==
    LET below(node) == NodesDeeperThan(node.children, depth + 1, limit)
    IN (IF depth > limit THEN Len(nodes) ELSE 0) + SumOver(nodes, below)

\* C21: the result holds exactly one EXCESSIVE_DEPTH warning for each node
\* whose depth (roots at depth 0) exceeds 6, and none for nodes at depth 6 or
\* less.  (Violated: the warning is pushed once per list of siblings, so two
\* siblings at depth 7 get one warning between them.)
C21_ExcessiveDepthPerNode ==
    \A ck \in NormalCalls :
        Cardinality(IssuesCoded(OutcomeAt(ck).result, "EXCESSIVE_DEPTH"))
            = NodesDeeperThan(InputAt(ck), 0, 6)

\* Edges on the longest path from one of the given nodes down to a leaf
RECURSIVE Height(_)
Height(nodes) ==
    LET under == {nodes[i].children : i \in 1..Len(nodes)} \ {<<>>}
    IN IF under = {} THEN 0
       ELSE 1 + (CHOOSE h \in {Height(group) : group \in under} :
                    \A group \in under : Height(group) <= h)

\* The lists of siblings of a forest: the root list and every children list
SiblingGroups(forest) == {forest} \cup {node.children : node \in NodesOf(forest)}

\* C22: on the normal path depth is the greatest number of edges on a
\* root-to-leaf path (0 for childless roots), breadth the size of the largest
\* list of siblings, the root list included, and complexity is
\* min(100, depth * 10 + breadth * 5).
C22_DepthBreadthComplexity ==
    \A ck \in NormalCalls :
        LET metrics == OutcomeAt(ck).result.metrics
            groups == SiblingGroups(InputAt(ck))
            blend == metrics.depth * 10 + metrics.breadth * 5
        IN /\ metrics.depth = Height(InputAt(ck))
           /\ \E group \in groups : Len(group) = metrics.breadth
           /\ \A group \in groups : Len(group) <= metrics.breadth
           /\ metrics.complexity = IF blend > 100 THEN 100 ELSE blend

\* A chain of 9 nodes with 3 children at its end and 2 roots in all: depth 9,
\* breadth 3 (the deepest list, wider than the root list), complexity capped
\* at 100
C22_Witness ==
    \E ck \in NormalCalls :
        LET metrics == OutcomeAt(ck).result.metrics
        IN /\ Len(InputAt(ck)) = 2
           /\ metrics.depth = 9
           /\ metrics.breadth = 3
           /\ metrics.complexity = 100

\* The advice each rule gives, in the order the rules are written
RuleTexts ==
    <<"Fix critical errors", "Address warnings", "Flatten hierarchy", "Group tasks",
      "Add estimates and descriptions", "Phases or reduce scope">>

\* Which rules hold for given counts of errors and warnings and given metrics
RuleFires(errors, warnings, metrics) ==
    <<errors > 0, warnings > 5, metrics.depth > 5, metrics.breadth > 8,
      ~metrics.completeness.nan /\ metrics.completeness.v < 70,
      metrics.feasibility < 60>>

\* How many issues of a list are of the given kind, whatever their order
KindCount(issues, kind) == Cardinality({i \in 1..Len(issues) : issues[i].type = kind})

\* What generateSuggestions must return for a list of issues and metrics
SuggestionsFit(suggestions, issues, metrics) ==
    LET errors == KindCount(issues, "error")
        fires == RuleFires(errors, KindCount(issues, "warning"), metrics)
        texts == {suggestions[i].text : i \in 1..Len(suggestions)}
    IN /\ Len(suggestions) > 0
       /\ Len(suggestions) = Cardinality(texts)
       /\ \A r \in 1..Len(RuleTexts) : (RuleTexts[r] \in texts) <=> fires[r]
       /\ ("Structure looks good" \in texts) <=> (\A r \in 1..Len(RuleTexts) : ~fires[r])
       /\ texts \subseteq {RuleTexts[r] : r \in 1..Len(RuleTexts)} \cup {"Structure looks good"}
       /\ \A i \in 1..Len(suggestions) :
             suggestions[i].text = "Fix critical errors" => suggestions[i].n = errors

\* C23: the suggestions are never empty and follow from the number of errors,
\* the number of warnings and the metrics alone: each of the six rules gives
\* its advice exactly when its condition holds, and the affirmative advice is
\* given exactly when none holds.
C23_SuggestionsFollowThresholds ==
    scored.called => SuggestionsFit(scored.suggestions, scored.issues, scored.metrics)

\* Six warnings, no error and metrics on the quiet side of every threshold: the
\* advice about warnings is the only one
C23_Witness ==
    /\ scored.called
    /\ KindCount(scored.issues, "warning") = 6
    /\ KindCount(scored.issues, "error") = 0
    /\ scored.metrics.completeness = Num(70)
    /\ scored.suggestions = <<Suggestion("Address warnings", 0)>>

\* C23 on whole validations: every result that is not degraded carries the
\* suggestions its own issues and metrics call for
SuggestionsFitResult ==
    \A ck \in NormalCalls :
        LET result == OutcomeAt(ck).result
        IN SuggestionsFit(result.suggestions, result.issues, result.metrics)

-----------------------------------------------------------------------------
(* Estimates by rank *)

\* C24: a node of rank task or subtask gets MISSING_ESTIMATE exactly when it
\* has no estimatedHours, with or without children, ZERO_ESTIMATE exactly when
\* it has no children and an estimate of 0, LONG_TASK exactly when it has no
\* children and an estimate above 40; a node of rank objective, strategy or
\* initiative gets none of the three.
C24_EstimatesByRank ==
    \A ck \in NormalCalls :
        LET order == traverseNodes(InputAt(ck))
            result == OutcomeAt(ck).result
        IN \A k \in 1..Len(order) :
              LET node == order[k]
                  h == node.estimatedHours
                  low == node.type \in {"task", "subtask"}
                  leaf == node.children = <<>>
              IN /\ Expect(result, "MISSING_ESTIMATE", node, low /\ h = Undefined)
                 /\ Expect(result, "ZERO_ESTIMATE", node, low /\ leaf /\ h = Number(0))
                 /\ Expect(result, "LONG_TASK", node,
                           low /\ leaf /\ h # Undefined /\ h.n > 40)

\* A task without an estimate holding a subtask of 41 hours: MISSING_ESTIMATE
\* on the parent, LONG_TASK on the child
C24_Witness ==
    \E ck \in NormalCalls :
        LET forest == InputAt(ck)
            result == OutcomeAt(ck).result
        IN /\ Len(forest) = 1
           /\ forest[1].type = "task"
           /\ forest[1].estimatedHours = Undefined
           /\ Len(forest[1].children) = 1
           /\ forest[1].children[1].type = "subtask"
           /\ forest[1].children[1].estimatedHours = Number(41)
           /\ IssuesOn(result, "MISSING_ESTIMATE", forest[1].id) # {}
           /\ IssuesOn(result, "LONG_TASK", forest[1].children[1].id) # {}

-----------------------------------------------------------------------------
(* Titles *)

\* C26: every node gets MISSING_TITLE exactly when its title is absent or
\* blank, SHORT_TITLE exactly when its title has fewer than 5 characters, and
\* LONG_TITLE exactly when its title has more than 100.
\* (Violated: the empty title has 0 characters and gets no SHORT_TITLE, while a
\* title of three spaces gets both MISSING_TITLE and SHORT_TITLE.)
C26_TitleRules ==
    \A ck \in NormalCalls :
        LET result == OutcomeAt(ck).result
        IN \A node \in NodesOf(InputAt(ck)) :
              LET title == node.title
                  given == title # Undefined
              IN /\ Expect(result, "MISSING_TITLE", node, ~given \/ Trim(title.s) = "")
                 /\ Expect(result, "SHORT_TITLE", node, given /\ Len(title.s) < 5)
                 /\ Expect(result, "LONG_TITLE", node, given /\ Len(title.s) > 100)

-----------------------------------------------------------------------------
(* Feasibility and the advice about scope *)

AdvisesScope(result) ==
    \E i \in 1..Len(result.suggestions) :
        result.suggestions[i].text = "Phases or reduce scope"

\* C27: in every result that is not degraded, over a forest that is not
\* empty, feasibility is 50 or an integer from 60 to 100, and the advice to
\* phase the project or reduce its scope is given exactly when the total of the
\* leaf estimates is 0 or less, or 2000 or more; a forest none of whose leaves
\* has an estimate always gets it.
C27_FeasibilityBand ==
    \A ck \in NormalCalls :
        LET order == traverseNodes(InputAt(ck))
            result == OutcomeAt(ck).result
            total == LeafTotal(order)
        IN Len(order) > 0 =>
              /\ result.metrics.feasibility = 50 \/ result.metrics.feasibility \in 60..100
              /\ AdvisesScope(result) <=> (total <= 0 \/ total >= 2000)
              /\ (\A k \in 1..Len(order) :
                     order[k].children = <<>> => order[k].estimatedHours = Undefined)
                     => AdvisesScope(result)

\* Leaves totalling 1999 hours: feasibility is 60 and the advice is not given
C27_Witness ==
    \E ck \in NormalCalls :
        /\ LeafTotal(traverseNodes(InputAt(ck))) = 1999
        /\ OutcomeAt(ck).result.metrics.feasibility = 60
        /\ ~AdvisesScope(OutcomeAt(ck).result)

-----------------------------------------------------------------------------
(* Tenants and templates *)

\* The row of a table with the given id, or Null
RowOf(table, id) ==
    LET hit == {i \in 1..Len(table.rows) : table.rows[i].id = id}
    IN IF hit = {} THEN Null ELSE table.rows[CHOOSE i \in hit : TRUE]

\* C30: in any sequence of calls by several tenants, a call of updateTemplate
\* or deleteTemplate changes or removes a row only when the caller's tenantId
\* is the row's tenant_id; on another tenant's row, public or not, it leaves
\* the table as it was and reports not-found (null, false); getTemplate returns
\* a template only when it is the caller's own or public, and does return
\* another tenant's public template.
C30_TenantIsolation ==
    [][LET call == reply'
           writes == call.op \in {"updateTemplate", "deleteTemplate"}
       IN /\ writes =>
                \A id \in KnownIds(templates) :
                    LET before == RowOf(templates, id)
                    IN /\ before # Null /\ RowOf(templates', id) # before
                          => before.tenant_id = call.tenantId
                       /\ before # Null /\ id = call.id /\ before.tenant_id # call.tenantId
                          /\ ~call.threw
                          => /\ templates' = templates
                             /\ call.result = IF call.op = "updateTemplate"
                                              THEN Null ELSE FALSE
          /\ call.op = "getTemplate" =>
                LET row == RowOf(templates, call.id)
                IN /\ call.result # Null =>
                         /\ call.result.id = call.id
                         /\ call.result.tenantId = call.tenantId \/ call.result.isPublic
                   /\ row # Null /\ row.is_public => call.result # Null
                   /\ templates' = templates]_vars

\* A tenant asked to update another tenant's public template: the call came
\* back with null and the row still carries its first name
C30_Witness ==
    /\ reply.op = "updateTemplate"
    /\ ~reply.threw
    /\ reply.result = Null
    /\ LET row == RowOf(templates, reply.id)
       IN /\ row # Null
          /\ row.is_public
          /\ row.tenant_id # reply.tenantId
          /\ row.name = "Plan A"

-----------------------------------------------------------------------------
(* Creating a template through the controller *)

ErrorsOf(issues) ==
    LET isError(i) == i.type = "error"
    IN SelectSeq(issues, isError)

\* C28: a template is stored only after validateHTA returned isValid = TRUE
\* for the submitted structure; when the result holds an error issue nothing is
\* stored and the answer is a 400 whose details are the error issues of the
\* result and nothing else; a request without a user reaches neither the
\* validation nor the table.
C28_StoreOnlyIfValid ==
    reply.op = "POST /templates" =>
        LET validation == reply.validation
        IN /\ templates.rows # <<>> =>
                 /\ validation.kind = "returned"
                 /\ validation.result.isValid = TRUE
                 /\ validation = validateHTA(structure[1])
                 /\ templates.rows[1].structure = structure[1]
                 /\ reply.user # Undefined
           /\ validation.kind = "returned" /\ HasIssueOfType(validation.result, "error") =>
                 /\ templates.rows = <<>>
                 /\ reply.status = 400
                 /\ reply.answer.details = ErrorsOf(validation.result.issues)
                 /\ \A i \in 1..Len(reply.answer.details) :
                       reply.answer.details[i].type = "error"
           /\ reply.user = Undefined =>
                 /\ validation = NotValidated
                 /\ templates.rows = <<>>

\* A structure with an error and warnings was refused: nothing stored, and the
\* details are fewer than the issues
C28_Witness ==
    /\ reply.op = "POST /templates"
    /\ reply.status = 400
    /\ reply.validation.kind = "returned"
    /\ ~IsDegraded(reply.validation.result)
    /\ HasIssueOfType(reply.validation.result, "warning")
    /\ Len(reply.answer.details) > 0
    /\ Len(reply.answer.details) < Len(reply.validation.result.issues)
    /\ templates.rows = <<>>

-----------------------------------------------------------------------------
(* The primary model and its fallback *)

\* An attempt failed: the request was rejected, or the content is not a
\* response parseHTAResponse accepts
AttemptFailed(answer) ==
    \/ answer = Rejected
    \/ answer.kind = "completion"
       /\ \A now \in Clock : parseHTAResponse(ContentOf(answer), now).threw

RefinementFailed(answer) ==
    \/ answer = Rejected
    \/ answer.kind = "completion"
       /\ \A now \in Clock : parseRefinementResponse(ContentOf(answer), now).threw

Settled == ai.pc = "idle" /\ ai.op # "none"

\* The parts of C29 other than "only after the primary attempt failed"
FallbackOrder ==
    /\ ai.op = "generateHTA" =>
          /\ Len(ai.calls) \in 1..2
          /\ ai.calls[1].model = primaryModel
          /\ Len(ai.calls) = 2 => ai.calls[2].model = fallbackModel
          /\ Settled =>
                /\ ai.outcome.kind = "threw" <=>
                      /\ Len(ai.calls) = 2
                      /\ AttemptFailed(ai.calls[2].answer)
                /\ ai.outcome.kind = "threw" => ai.outcome.message = "AI service unavailable"
                /\ ai.outcome.kind = "returned" =>
                      ai.outcome.result.modelUsed =
                          IF Len(ai.calls) = 2 THEN fallbackModel ELSE primaryModel
    /\ ai.op = "refineHTA" =>
          /\ Len(ai.calls) <= 1
          /\ \A k \in 1..Len(ai.calls) : ai.calls[k].model = primaryModel
          /\ Settled /\ Len(ai.calls) = 1 =>
                (ai.outcome.kind = "threw" <=> RefinementFailed(ai.calls[1].answer))
          /\ Settled /\ ai.outcome.kind = "threw" =>
                ai.outcome.message = "Failed to refine HTA structure"

\* C29: generateHTA asks the primary model first; the fallback model is asked
\* at most once per request and only after the primary attempt failed (the
\* request was rejected or the response could not be parsed); the call fails,
\* with 'AI service unavailable', exactly when both attempts failed; a result
\* from the fallback names the fallback model as modelUsed; refineHTA asks the
\* primary model only and fails after one failed attempt.
\* (Violated: a primary response that parses but whose node count, taken for
\* the log inside the same try block, throws, sends the request to the
\* fallback model.)
C29_FallbackOnlyAfterFailure ==
    /\ FallbackOrder
    /\ ai.op = "generateHTA" /\ Len(ai.calls) = 2 => AttemptFailed(ai.calls[1].answer)
    /\ ai.op = "generateHTA" /\ Settled /\ ai.outcome.kind = "threw" =>
          AttemptFailed(ai.calls[1].answer)
=============================================================================
